---- MODULE Spec2Model ----
(***************************************************************************)
(* The image build pipeline of superai/meta_ai/image_builder.py            *)
(* (AiImageBuilder, AiTrainerImageBuilder) as a state machine.              *)
(*                                                                         *)
(* The world is the build location on disk (tracked dependency files, the  *)
(* generated entrypoint files, the environment file), the per name+version *)
(* cache folder (.hash.json, .orchestrator.txt) and the local Docker image *)
(* store.  Each process owns one builder and runs build_image step by      *)
(* step; every external call chooses its outcome nondeterministically.     *)
(* A step of a build is one access to what processes share: a test, an     *)
(* open, a load or a write of a file, one call of the download, one write  *)
(* to the environment file, one image lookup, the start or the exit of the *)
(* build tool.  A file is written at the writer's own offset, so that a    *)
(* shorter document written over a longer one leaves the longer one's      *)
(* tail.  Nothing is locked.                                               *)
(* Python values are written as Python prints them ("None", "True", "5").  *)
(***************************************************************************)
EXTENDS Integers, Sequences, FiniteSets, TLC

\* Number of distinct byte contents a tracked file can take (1..NumContents).
NumContents == 2

VARIABLES
    disk,               \* location/<tracked file> -> content id, 0 = no such file
    hash_file,          \* <cache>/<name>/<version>/.hash.json
    orchestrator_file,  \* <cache>/<name>/<version>/.orchestrator.txt
    images,             \* names retrievable from the local Docker image store
    pip_layer_src,      \* what the present <name>-pip-layer image was built from
    last_track,         \* the inputs of the last _track_changes run that returned
    prev_build,         \* how the last finished build_image call ended
    env_file,           \* the environment file of the EnvironmentFileProcessor
    location_files,     \* location/handler.py, location/dockerd-entrypoint.py
    config_json,        \* location/<name>_config.json, the Kubernetes manifest
    current_env,        \* settings.current_env
    b                   \* per process: builder, call arguments, locals, position

\* History the program does not keep.
ghosts == <<pip_layer_src, last_track, prev_build>>

generated == <<location_files, config_json>>

cache == <<hash_file, orchestrator_file>>

world == <<disk, cache, images, ghosts, env_file, generated, current_env>>

vars == <<world, b>>

Procs == {1, 2}

----------------------------------------------------------------------------
(* Python values *)

None == "None"
True == "True"
False == "False"

PyBool(x) == IF x THEN True ELSE False

\* Python truthiness of a printed value, as `x or default` tests it.
Falsy(v) == v \in {"None", "False", "0", "0.0", ""}

PyOr(x, y) == IF Falsy(x) THEN y ELSE x

----------------------------------------------------------------------------
(* Orchestrators *)

Orchestrator ==
    {"LOCAL_DOCKER", "LOCAL_DOCKER_LAMBDA", "LOCAL_DOCKER_K8S", "MINIKUBE",
     "AWS_SAGEMAKER", "AWS_SAGEMAKER_ASYNC", "AWS_LAMBDA", "AWS_EKS"}

TrainingOrchestrator == {"LOCAL_DOCKER_K8S", "AWS_EKS"}

BuilderClasses == {"AiImageBuilder", "AiTrainerImageBuilder"}

\* A value passed as orchestrator: a member of one of the two enum classes,
\* or (enum = "str") a plain string.  Members are strings too: they are
\* equal to, hashed and serialized as their names.
Member(enum, name) == [enum |-> enum, name |-> name]

Members(enum) ==
    {Member(enum, name) :
        name \in IF enum = "Orchestrator" THEN Orchestrator
                 ELSE IF enum = "TrainingOrchestrator" THEN TrainingOrchestrator
                 ELSE {}}

\* The enum class a builder class allows.
ALLOWED_ORCHESTRATOR(cls) ==
    IF cls = "AiTrainerImageBuilder" THEN Members("TrainingOrchestrator")
    ELSE Members("Orchestrator")

\* `self.orchestrator not in self.ALLOWED_ORCHESTRATOR` raises ValueError.
\* Membership in an enum class (Python up to 3.11): a member of another
\* class is not contained, a value that is no enum member is a TypeError.
_check_orchestrator(cls, orchestrator) ==
    IF orchestrator.enum = "str" THEN "TypeError"
    ELSE IF orchestrator \notin ALLOWED_ORCHESTRATOR(cls) THEN "ValueError"
    ELSE "ok"

NoMessage == [text |-> "", listed |-> {}, shown |-> {}]

\* What the exception of _check_orchestrator says: its text, the permitted
\* members it lists, and the passed values it shows.
InvalidOrchestratorMessage(cls, orchestrator) ==
    IF _check_orchestrator(cls, orchestrator) = "ValueError"
    THEN [text |-> "Invalid Orchestrator, should be one of",
          listed |-> ALLOWED_ORCHESTRATOR(cls), shown |-> {}]
    ELSE IF _check_orchestrator(cls, orchestrator) = "TypeError"
    THEN [text |-> "unsupported operand type(s) for 'in'",
          listed |-> {}, shown |-> {}]
    ELSE NoMessage

IsK8sMode(orchestrator) == orchestrator \in {"AWS_EKS", "LOCAL_DOCKER_K8S"}

IsLambdaMode(orchestrator) == orchestrator \in {"LOCAL_DOCKER_LAMBDA", "AWS_LAMBDA"}

----------------------------------------------------------------------------
(* Names *)

ModelName == "my_model"
ModelVersion == "1"
Location == "/models/my_model"
CallerCwd == "/home/user"
EntrypointClass == "MyModel"
AccountId == "123456789012"
Region == "us-east-1"

\* A name joined with a dash.
dashed_image_name(image_name, version_tag) ==
    image_name \o "-" \o version_tag

full_image_name(image_name, version_tag) == image_name \o ":" \o version_tag

pip_layer_name(image_name, version_tag) ==
    image_name \o "-pip-layer:" \o version_tag

_get_docker_registry(region) ==
    AccountId \o ".dkr.ecr." \o region \o ".amazonaws.com"

ecr_image_name(base_image) == _get_docker_registry(Region) \o "/" \o base_image

----------------------------------------------------------------------------
(* Base Image Resolver *)

\* A conditional suffix that is never appended.
NoSuffix(v, suffix) == ""

Flag(v, suffix) == IF v THEN suffix ELSE ""

\* A tier choice that puts plain CUDA before CUDA-devel.
TierSuffixCudaFirst(enable_eia, enable_cuda, cuda_devel) ==
    IF enable_cuda THEN "-gpu"
    ELSE IF cuda_devel THEN "-gpu-devel"
    ELSE IF enable_eia THEN "-eia"
    ELSE "-cpu"

\* The tier suffix: exactly one of the four, cuda_devel first.
TierSuffix(enable_eia, enable_cuda, cuda_devel) ==
    IF cuda_devel THEN "-gpu-devel"
    ELSE IF enable_cuda THEN "-gpu"
    ELSE IF enable_eia THEN "-eia"
    ELSE "-cpu"

\* A resolver without the CUDA-with-Lambda guard.
_get_base_name_eia_guard_only(enable_eia, lambda_mode, enable_cuda, cuda_devel, k8s_mode, version, use_internal) ==
    IF enable_eia /\ (lambda_mode \/ enable_cuda \/ k8s_mode)
    THEN [error |-> "ValueError: Cannot use EIA with other options", name |-> ""]
    ELSE [error |-> "",
          name |-> "superai-model-s2i-python3711"
                   \o TierSuffix(enable_eia, enable_cuda, cuda_devel)
                   \o Flag(current_env = "dev" \/ use_internal, "-internal")
                   \o (IF lambda_mode THEN "-lambda"
                       ELSE IF k8s_mode THEN "-seldon" ELSE "")
                   \o ":" \o ToString(version)]

\* [error, name]: error is "" and name the image reference, or error is the
\* raised exception and name is "".  The method is static and reads nothing
\* but its arguments and settings.current_env (lines 418-442).
_get_base_name(enable_eia, lambda_mode, enable_cuda, cuda_devel, k8s_mode, version, use_internal) ==
    IF enable_eia /\ (lambda_mode \/ enable_cuda \/ k8s_mode)
    THEN [error |-> "ValueError: Cannot use EIA with other options", name |-> ""]
    ELSE IF enable_cuda /\ lambda_mode
    THEN [error |-> "ValueError: Cannot use CUDA with Lambda", name |-> ""]
    ELSE [error |-> "",
          name |-> "superai-model-s2i-python3711"
                   \o TierSuffix(enable_eia, enable_cuda, cuda_devel)
                   \o Flag(current_env = "dev" \/ use_internal, "-internal")
                   \o (IF lambda_mode THEN "-lambda"
                       ELSE IF k8s_mode THEN "-seldon" ELSE "")
                   \o ":" \o ToString(version)]

\* The default of _get_base_name's `version` parameter.
BaseImageVersion == 1

----------------------------------------------------------------------------
(* Environment File Processor (superai/meta_ai/environment_file.py) *)

EnvKeys ==
    {"SUPERAI_CONFIG_ROOT", "LAMBDA_MODE", "SERVICE_TYPE", "PERSISTENCE",
     "API_TYPE", "SELDON_MODE", "BUILD_PIP"}

Unset == "<unset>"

EmptyEnv == [k \in EnvKeys |-> Unset]

\* The "KEY=value" strings the builder passes as a single argument.
SplitAssignment(line) ==
    CASE line = "BUILD_PIP=false" -> <<"BUILD_PIP", "false">>
      [] line = "LAMBDA_MODE=true" -> <<"LAMBDA_MODE", "true">>
      [] line = "SERVICE_TYPE=MODEL" -> <<"SERVICE_TYPE", "MODEL">>
      [] line = "PERSISTENCE=0" -> <<"PERSISTENCE", "0">>
      [] line = "API_TYPE=REST" -> <<"API_TYPE", "REST">>
      [] line = "SELDON_MODE=true" -> <<"SELDON_MODE", "true">>

\* environs.add_or_update(key, value)
add_or_update(env, key, value) == [env EXCEPT ![key] = value]

\* environs.add_or_update("KEY=value")
add_or_update_line(env, line) ==
    add_or_update(env, SplitAssignment(line)[1], SplitAssignment(line)[2])

\* environs.delete(key)
delete(env, key) == [env EXCEPT ![key] = Unset]

\* A build that does not look at the caller's envs.
NoEnvs(args) == <<>>

\* Line 180, `kwargs.get("envs", {}).items()`: the <<key, value>> pairs the
\* caller passed, in the order of the dict.
EnvsItems(args) == args.envs

\* An injection that sets the Kubernetes flags whenever k8s_mode is set, with
\* or without the Lambda flag.
EnvironLinesBoth(lambda_mode, k8s_mode) ==
    <<(<<"SUPERAI_CONFIG_ROOT", "/tmp/.superai">>)>>
    \o (IF lambda_mode \/ ~k8s_mode
        THEN <<SplitAssignment("LAMBDA_MODE=true")>> ELSE <<>>)
    \o (IF k8s_mode
        THEN <<SplitAssignment("SERVICE_TYPE=MODEL"),
               SplitAssignment("PERSISTENCE=0"),
               SplitAssignment("API_TYPE=REST"),
               SplitAssignment("SELDON_MODE=true")>>
        ELSE <<>>)

\* The add_or_update calls of _create_prediction_image_s2i (lines 354-361),
\* in order, each a <<key, value>>.
EnvironLines(lambda_mode, k8s_mode) ==
    <<(<<"SUPERAI_CONFIG_ROOT", "/tmp/.superai">>)>>
    \o (IF lambda_mode THEN <<SplitAssignment("LAMBDA_MODE=true")>>
        ELSE IF k8s_mode
        THEN <<SplitAssignment("SERVICE_TYPE=MODEL"),
               SplitAssignment("PERSISTENCE=0"),
               SplitAssignment("API_TYPE=REST"),
               SplitAssignment("SELDON_MODE=true")>>
        ELSE <<>>)

----------------------------------------------------------------------------
(* Entrypoint Preparer *)

ConfigJson == ModelName \o "_config.json"

GeneratedFiles == {"handler.py", "dockerd-entrypoint.py"}

\* A generated file of the location before any build: a file as the cache
\* files are, its document a text.
AbsentTextFile == [exists |-> FALSE, size |-> 0, content |-> ""]

\* superai.meta_ai.ai_helper: the generated text, by what it is generated from.
create_model_handler(entrypoint_class, lambda_mode, ai_cache) ==
    "handler(" \o entrypoint_class \o ", lambda_mode=" \o PyBool(lambda_mode)
    \o (IF lambda_mode THEN ", ai_cache=" \o ai_cache ELSE "") \o ")"

create_model_entrypoint(worker_count) == "entrypoint(workers=" \o worker_count \o ")"

\* A preparation that writes the server entrypoint for Lambda orchestrators
\* too.
prepare_entrypoint_with_server(orchestrator, lambda_ai_cache, sagemaker_worker_count) ==
    IF orchestrator \in {"LOCAL_DOCKER", "AWS_SAGEMAKER", "AWS_SAGEMAKER_ASYNC"}
    THEN [error |-> "",
          writes |-> <<(<<"handler.py",
                          create_model_handler(EntrypointClass, FALSE, None)>>),
                       (<<"dockerd-entrypoint.py",
                          create_model_entrypoint(sagemaker_worker_count)>>)>>]
    ELSE IF orchestrator \in {"LOCAL_DOCKER_LAMBDA", "AWS_LAMBDA"}
    THEN [error |-> "",
          writes |-> <<(<<"handler.py",
                          create_model_handler(EntrypointClass, TRUE,
                                               lambda_ai_cache)>>),
                       (<<"dockerd-entrypoint.py",
                          create_model_entrypoint(sagemaker_worker_count)>>)>>]
    ELSE IF orchestrator \in {"AWS_EKS", "LOCAL_DOCKER_K8S"}
    THEN [error |-> "", writes |-> <<>>]
    ELSE [error |-> "NotImplementedError", writes |-> <<>>]

\* A preparation that writes nothing and accepts every other orchestrator.
prepare_entrypoint_for_all(orchestrator, lambda_ai_cache, sagemaker_worker_count) ==
    IF orchestrator \in {"LOCAL_DOCKER", "AWS_SAGEMAKER", "AWS_SAGEMAKER_ASYNC"}
    THEN [error |-> "",
          writes |-> <<(<<"handler.py",
                          create_model_handler(EntrypointClass, FALSE, None)>>),
                       (<<"dockerd-entrypoint.py",
                          create_model_entrypoint(sagemaker_worker_count)>>)>>]
    ELSE IF orchestrator \in {"LOCAL_DOCKER_LAMBDA", "AWS_LAMBDA"}
    THEN [error |-> "",
          writes |-> <<(<<"handler.py",
                          create_model_handler(EntrypointClass, TRUE,
                                               lambda_ai_cache)>>)>>]
    ELSE [error |-> "", writes |-> <<>>]

\* [error, writes]: the files prepare_entrypoint opens and writes, each a
\* <<name, text>>, in the order of lines 128-141, or the error it raises.
prepare_entrypoint(orchestrator, lambda_ai_cache, sagemaker_worker_count) ==
    IF orchestrator \in {"LOCAL_DOCKER", "AWS_SAGEMAKER", "AWS_SAGEMAKER_ASYNC"}
    THEN [error |-> "",
          writes |-> <<(<<"handler.py",
                          create_model_handler(EntrypointClass, FALSE, None)>>),
                       (<<"dockerd-entrypoint.py",
                          create_model_entrypoint(sagemaker_worker_count)>>)>>]
    ELSE IF orchestrator \in {"LOCAL_DOCKER_LAMBDA", "AWS_LAMBDA"}
    THEN [error |-> "",
          writes |-> <<(<<"handler.py",
                          create_model_handler(EntrypointClass, TRUE,
                                               lambda_ai_cache)>>)>>]
    ELSE IF orchestrator \in {"AWS_EKS", "LOCAL_DOCKER_K8S"}
    THEN [error |-> "", writes |-> <<>>]
    ELSE [error |-> "NotImplementedError", writes |-> <<>>]

----------------------------------------------------------------------------
(* Deployment Property Synthesizer *)

\* Keyword arguments build_image passes on (**kwargs); Unset = not passed.
K8sParamNames ==
    {"maxReplicas", "minReplicas", "cooldownPeriod", "targetAverageUtilization",
     "gpuTargetAverageUtilization", "targetMemoryRequirement",
     "targetMemoryLimit", "volumeMountName", "mountPath", "worker_count"}

KwargNames == {"lambda_ai_cache", "sagemaker_worker_count"} \cup K8sParamNames

NoKwargs == [k \in KwargNames |-> Unset]

\* kwargs.get(key, default)
KwargGet(kwargs, key, default) ==
    IF kwargs[key] = Unset THEN default ELSE kwargs[key]

\* Keyword parameters that default to None.
K8sParamNone(param) == None

\* The defaults of _prepare_k8s_parameters' keyword parameters.
K8sParamDefault(param) ==
    CASE param = "maxReplicas" -> "5"
      [] param = "minReplicas" -> "0"
      [] param = "cooldownPeriod" -> "1800"
      [] param = "targetAverageUtilization" -> "0.5"
      [] param = "gpuTargetAverageUtilization" -> "60"
      [] param = "targetMemoryRequirement" -> "512Mi"
      [] param = "targetMemoryLimit" -> "4Gi"
      [] param = "volumeMountName" -> "efs-vpc"
      [] param = "mountPath" -> "/shared"
      [] param = "worker_count" -> "1"

\* Manifest key -> the kubernetes_config key and keyword parameter it is
\* read from.
K8sOutKeys ==
    {"maxReplicaCount", "minReplicaCount", "cooldownPeriod",
     "targetAverageUtilization", "gpuTargetAverageUtilization",
     "targetMemoryRequirement", "targetMemoryLimit", "volumeMountName",
     "mountPath", "numThreads"}

K8sSourceOf(out) ==
    CASE out = "maxReplicaCount" -> "maxReplicas"
      [] out = "minReplicaCount" -> "minReplicas"
      [] out = "numThreads" -> "worker_count"
      [] OTHER -> out

K8sKeys == K8sOutKeys \cup K8sParamNames \cup {"enableCuda"}

\* A dict over K8sKeys: Unset = the key is not in the dict.
EmptyK8s == [k \in K8sKeys |-> Unset]

\* dict.get(key): None for a key that is not there.
DictGet(d, key) == IF d[key] = Unset THEN None ELSE d[key]

\* The manifest _prepare_k8s_parameters computes (and dumps to
\* <name>_config.json): kubernetes_config.update(dict(...)).
_prepare_k8s_parameters(kwargs, enable_cuda, kubernetes_config) ==
    [k \in K8sKeys |->
        IF k \in K8sOutKeys
        THEN PyOr(DictGet(kubernetes_config, K8sSourceOf(k)),
                  KwargGet(kwargs, K8sSourceOf(k), K8sParamDefault(K8sSourceOf(k))))
        ELSE IF k = "enableCuda" THEN enable_cuda
        ELSE kubernetes_config[k]]

\* <name>_config.json before any build: a file as the cache files are.
AbsentManifestFile == [exists |-> FALSE, size |-> 0, content |-> EmptyK8s]

\* The length of what json.dump(d, wfp, indent=2) writes: {} or one line
\* `  "<key>": <value>` per entry between "{" and "}", commas between them;
\* None is null, a bool true or false, a number its digits, a string quoted.
ManifestLen(d) ==
    LET numbers == {"0", "1", "5", "7", "60", "1800", "0.5"}
        value(v) == IF v \in {None, True} THEN 4
                    ELSE IF v = False THEN 5
                    ELSE IF v \in numbers THEN Len(v) ELSE Len(v) + 2
        RECURSIVE entries(_)
        entries(keys) ==
            IF keys = {} THEN 0
            ELSE LET k == CHOOSE key \in keys : TRUE
                 IN  Len(k) + 8 + value(d[k]) + entries(keys \ {k})
    IN  2 + entries({k \in K8sKeys : d[k] # Unset})

PropKeys == {"image_name", "lambda_mode", "enable_cuda", "k8s_mode", "custom"}

EmptyFlat == [k \in PropKeys |-> Unset]

\* A properties dict: its plain entries, and its "kubernetes_config" entry.
EmptyProperties == [flat |-> EmptyFlat, has_k8s |-> FALSE, k8s |-> EmptyK8s]

\* A synthesis that writes the flat entries for every orchestrator.
get_deployment_properties_flat(orchestrator, properties, image_name, enable_cuda, kwargs) ==
    LET k8s == IF IsK8sMode(orchestrator)
               THEN [properties EXCEPT
                       !.has_k8s = TRUE,
                       !.k8s = _prepare_k8s_parameters(
                                  kwargs, PyBool(enable_cuda),
                                  IF properties.has_k8s THEN properties.k8s
                                  ELSE EmptyK8s)]
               ELSE properties
    IN  [k8s EXCEPT
            !.flat = [k8s.flat EXCEPT
                !["image_name"] = image_name,
                !["lambda_mode"] = PyBool(IsLambdaMode(orchestrator)),
                !["enable_cuda"] = PyBool(enable_cuda),
                !["k8s_mode"] = PyOr(PyBool(orchestrator = "LOCAL_DOCKER_K8S"), None)]]

\* The dict get_deployment_properties returns.
get_deployment_properties(orchestrator, properties, image_name, enable_cuda, kwargs) ==
    LET k8s == IF IsK8sMode(orchestrator)
               THEN [properties EXCEPT
                       !.has_k8s = TRUE,
                       !.k8s = _prepare_k8s_parameters(
                                  kwargs, PyBool(enable_cuda),
                                  IF properties.has_k8s THEN properties.k8s
                                  ELSE EmptyK8s)]
               ELSE properties
    IN  IF orchestrator \in {"LOCAL_DOCKER", "LOCAL_DOCKER_LAMBDA", "LOCAL_DOCKER_K8S"}
        THEN [k8s EXCEPT
                !.flat = [k8s.flat EXCEPT
                    !["image_name"] = image_name,
                    !["lambda_mode"] = PyBool(IsLambdaMode(orchestrator)),
                    !["enable_cuda"] = PyBool(enable_cuda),
                    !["k8s_mode"] = PyOr(PyBool(orchestrator = "LOCAL_DOCKER_K8S"), None)]]
        ELSE k8s

----------------------------------------------------------------------------
(* Change-Detection Cache *)

TrackedFiles == {"requirements.txt", "environment.yml", "setup.sh"}

\* hashlib.sha256(bytes).hexdigest(): one digest per content.
sha256(content) == "sha256:" \o ToString(content)

\* The `files` list of _track_changes.
files_tracked(requirements, conda_env, artifacts_run) ==
    (IF requirements THEN {"requirements.txt"} ELSE {})
    \cup (IF conda_env THEN {"environment.yml"} ELSE {})
    \cup (IF artifacts_run THEN {"setup.sh"} ELSE {})

EmptyHashes == [f \in TrackedFiles |-> Unset]

\* A file the program writes with open(path, "w"): whether it exists, how
\* many bytes it has, and the document that was last written at its start.
\* The file is that document exactly when its size is the document's length;
\* a larger size means bytes of a longer, earlier write behind it.
AbsentHashFile == [exists |-> FALSE, size |-> 0, content |-> EmptyHashes]

EmptyOrchestrator == [orchestrator |-> Unset]

AbsentOrchestratorFile ==
    [exists |-> FALSE, size |-> 0, content |-> EmptyOrchestrator]

\* open(path, "w"): the file is created or truncated to no bytes; `nothing`
\* is the document of no entries.
OpenForWriting(nothing) == [exists |-> TRUE, size |-> 0, content |-> nothing]

\* f.write / json.dump(..., f) of a document of n bytes and the close at the
\* end of the `with`: the writer's offset is 0 since its open, the n bytes
\* replace the first n of the file and what lies behind them stays.
WriteAndClose(file, content, n) ==
    [exists |-> TRUE, size |-> IF file.size > n THEN file.size ELSE n,
     content |-> content]

\* len(json.dumps(d)) of a hash record: {} or {"<file>": "<digest>", ...},
\* a digest being the 64 hexadecimal digits of sha256.
HashesLen(d) ==
    LET entry(f) == IF d[f] = Unset THEN 0 ELSE Len(f) + 72
    IN  IF \A f \in TrackedFiles : d[f] = Unset THEN 2
        ELSE entry("requirements.txt") + entry("environment.yml")
             + entry("setup.sh")

\* len(json.dumps(d)) of an orchestrator record: {} or
\* {"orchestrator": "<name>"}.
OrchestratorLen(d) ==
    IF d["orchestrator"] = Unset THEN 2 ELSE 20 + Len(d["orchestrator"])

\* json.load(f) of a file that is one JSON document ({} of a file that is to
\* be created first, lines 226-228 and 243-245).
LoadHashes(file) == IF file.exists THEN file.content ELSE EmptyHashes

LoadOrchestrator(file) == IF file.exists THEN file.content ELSE EmptyOrchestrator

\* A comparison that never finds a difference.
NoHashesChanged(files, hash_content, d) == FALSE

\* A comparison that wants every tracked file to differ.
AllHashesChanged(files, hash_content, d) ==
    /\ files # {}
    /\ \A f \in files : sha256(d[f]) # DictGet(hash_content, f)

\* `file_hash != hash_content.get(file)` for some tracked file.
HashesChanged(files, hash_content, d) ==
    \E f \in files : sha256(d[f]) # DictGet(hash_content, f)

\* A record rebuilt from the files of this build alone.
OnlyTrackedHashes(files, hash_content, d) ==
    [f \in TrackedFiles |-> IF f \in files THEN sha256(d[f]) ELSE Unset]

\* A record that is written back as it was read.
StaleHashes(files, hash_content, d) == hash_content

\* new_hash after the loop.
NewHashes(files, hash_content, d) ==
    [f \in TrackedFiles |-> IF f \in files THEN sha256(d[f]) ELSE hash_content[f]]

\* A comparison that takes an absent record for the current orchestrator.
OrchestratorChangedIfRecorded(orchestrator, cached_op_type) ==
    /\ DictGet(cached_op_type, "orchestrator") # None
    /\ orchestrator # DictGet(cached_op_type, "orchestrator")

\* `self.orchestrator != cached_op_type.get("orchestrator")`
OrchestratorChanged(orchestrator, cached_op_type) ==
    orchestrator # DictGet(cached_op_type, "orchestrator")

----------------------------------------------------------------------------
(* The state of one process *)

NoBuilder ==
    [cls |-> "", orchestrator |-> "", orchestrator_enum |-> "",
     requirements |-> FALSE, conda_env |-> FALSE, artifacts_run |-> FALSE]

\* What a constructor call that raised had been given.
NoAttempt == [cls |-> "", orchestrator |-> Member("", "")]

\* build_image's parameters at their defaults.
DefaultArgs ==
    [cuda_devel |-> FALSE, enable_cuda |-> FALSE, enable_eia |-> FALSE,
     skip_build |-> FALSE, build_all_layers |-> FALSE, download_base |-> FALSE,
     properties |-> EmptyProperties, use_internal |-> FALSE,
     envs |-> <<>>, kwargs |-> NoKwargs]

\* One external operation of a build, as the trace records it.
Ev(op, src, tgt, ok, env) ==
    [op |-> op, src |-> src, tgt |-> tgt, ok |-> ok, env |-> env]

Log(st, ev) == [st EXCEPT !.trace = Append(@, ev)]

InitProc ==
    [pc |-> "new", builder |-> NoBuilder, args |-> DefaultArgs,
     k8s_mode |-> FALSE, lambda_mode |-> FALSE, changes_in_build |-> FALSE,
     from_scratch |-> FALSE, base_image |-> "", raising |-> "",
     ret |-> "", cwd |-> CallerCwd, saved_cwd |-> CallerCwd,
     trace |-> <<>>, outcome |-> "none", error |-> "", image_name |-> "",
     properties |-> EmptyProperties, attempt |-> NoAttempt,
     message |-> NoMessage, new_hash |-> EmptyHashes,
     cached_op_type |-> EmptyOrchestrator, step |-> 1,
     running |-> Ev("", "", "", FALSE, EmptyEnv)]

NoLayer ==
    [disk |-> [f \in TrackedFiles |-> 0], orchestrator |-> "", base_image |-> ""]

NoTrack ==
    [ran |-> FALSE, files |-> {}, disk |-> [f \in TrackedFiles |-> 0],
     orchestrator |-> ""]

\* A finished build: whether its stage 2 failed after its stage 1 had
\* succeeded, and then the inputs it ran on.
NoPrev ==
    [stage2_failed |-> FALSE, files |-> {},
     disk |-> [f \in TrackedFiles |-> 0], orchestrator |-> ""]

Idle(p) == b[p].pc \in {"new", "ready"}

InitWorld(d, env) ==
    /\ disk = d
    /\ hash_file = AbsentHashFile
    /\ orchestrator_file = AbsentOrchestratorFile
    /\ images = {}
    /\ pip_layer_src = NoLayer
    /\ last_track = NoTrack
    /\ prev_build = NoPrev
    /\ env_file = EmptyEnv
    /\ location_files = [f \in GeneratedFiles |-> AbsentTextFile]
    /\ config_json = AbsentManifestFile
    /\ current_env = env
    /\ b = [p \in Procs |-> InitProc]

TrackedBy(self) ==
    files_tracked(self.requirements, self.conda_env, self.artifacts_run)

S2IEvents(trace) == SelectSeq(trace, LAMBDA e : e.op = "s2i")

----------------------------------------------------------------------------
(* AiImageBuilder.__init__ *)

Construct(p, cls, orchestrator, requirements, conda_env, artifacts_run) ==
    /\ Idle(p)
    /\ b' = [b EXCEPT ![p] =
          IF _check_orchestrator(cls, orchestrator) = "ok"
          THEN [InitProc EXCEPT
                  !.pc = "ready",
                  !.cwd = b[p].cwd,
                  !.builder = [cls |-> cls, orchestrator |-> orchestrator.name,
                               orchestrator_enum |-> orchestrator.enum,
                               requirements |-> requirements,
                               conda_env |-> conda_env,
                               artifacts_run |-> artifacts_run]]
          ELSE [InitProc EXCEPT
                  !.pc = "done",
                  !.cwd = b[p].cwd,
                  !.outcome = "raised",
                  !.error = _check_orchestrator(cls, orchestrator),
                  !.attempt = [cls |-> cls, orchestrator |-> orchestrator],
                  !.message = InvalidOrchestratorMessage(cls, orchestrator)]]
    /\ UNCHANGED world

----------------------------------------------------------------------------
(* build_image, up to the call of build_image_s2i: envs and prepare *)

\* A manifest that is returned and not written.
KeepManifestFile(file, kubernetes_config) == file

\* Line 500: json.dump(kubernetes_config, wfp, indent=2) into
\* <name>_config.json, and the close.
DumpManifest(file, kubernetes_config) ==
    WriteAndClose(file, kubernetes_config, ManifestLen(kubernetes_config))

\* Line 179, the call, and the `for` of line 180 over the caller's envs.
build_image(p, args) ==
    /\ b[p].pc = "ready"
    /\ b' = [b EXCEPT ![p] =
          [@ EXCEPT
              !.args = args,
              !.step = 1,
              !.pc = IF EnvsItems(args) = <<>> THEN "prepare" ELSE "environs"]]
    /\ UNCHANGED world

\* Line 181, one turn of the loop: self.environs.add_or_update(key, value).
UpdateEnviron(p) ==
    LET items == EnvsItems(b[p].args)
        i == b[p].step
    IN  /\ b[p].pc = "environs"
        /\ env_file' = add_or_update(env_file, items[i][1], items[i][2])
        /\ b' = [b EXCEPT ![p] =
              [@ EXCEPT
                  !.step = IF i = Len(items) THEN 1 ELSE i + 1,
                  !.pc = IF i = Len(items) THEN "prepare" ELSE "environs"]]
        /\ UNCHANGED <<disk, cache, images, ghosts, generated, current_env>>

\* Lines 183-195, once prepare(**kwargs) has returned: build_image_s2i is
\* entered, or with skip_build the name is composed.
AfterPrepare(st) ==
    [Log(st, Ev("prepare", "", "", TRUE, EmptyEnv)) EXCEPT
        !.step = 1,
        !.pc = IF st.args.skip_build THEN "properties" ELSE "s2i_enter",
        !.ret = IF st.args.skip_build
                THEN full_image_name(ModelName, ModelVersion) ELSE st.ret]

\* prepare of the prediction builder, lines 124-147: the branch on the
\* orchestrator, and open(..., "w") of the next file it writes (lines 128,
\* 131, 136), which creates or truncates the file.
OpenGenerated(p) ==
    LET self == b[p].builder
        prep == prepare_entrypoint(
                    self.orchestrator,
                    KwargGet(b[p].args.kwargs, "lambda_ai_cache", "32"),
                    KwargGet(b[p].args.kwargs, "sagemaker_worker_count", "1"))
    IN  /\ b[p].pc = "prepare"
        /\ self.cls = "AiImageBuilder"
        /\ location_files' =
              IF prep.writes = <<>> THEN location_files
              ELSE [location_files EXCEPT
                      ![prep.writes[b[p].step][1]] = OpenForWriting("")]
        /\ prev_build' = IF prep.error # "" THEN NoPrev ELSE prev_build
        /\ b' = [b EXCEPT ![p] =
              IF prep.error # ""
              THEN [Log(@, Ev("prepare", "", "", FALSE, EmptyEnv)) EXCEPT
                      !.pc = "done", !.outcome = "raised", !.error = prep.error]
              ELSE IF prep.writes = <<>> THEN AfterPrepare(@)
              ELSE [@ EXCEPT !.pc = "prepare_write"]]
        /\ UNCHANGED <<disk, cache, images, pip_layer_src, last_track, env_file,
                       config_json, current_env>>

\* Lines 129-130, 132-133, 137-140: the text is generated and written into
\* the file just opened, and the file closed.
WriteGenerated(p) ==
    LET self == b[p].builder
        prep == prepare_entrypoint(
                    self.orchestrator,
                    KwargGet(b[p].args.kwargs, "lambda_ai_cache", "32"),
                    KwargGet(b[p].args.kwargs, "sagemaker_worker_count", "1"))
        i == b[p].step
        file == prep.writes[i][1]
        text == prep.writes[i][2]
    IN  /\ b[p].pc = "prepare_write"
        /\ location_files' =
              [location_files EXCEPT
                  ![file] = WriteAndClose(@, text, Len(text))]
        /\ b' = [b EXCEPT ![p] =
              IF i = Len(prep.writes) THEN AfterPrepare(@)
              ELSE [@ EXCEPT !.step = i + 1, !.pc = "prepare"]]
        /\ UNCHANGED <<disk, cache, images, ghosts, env_file, config_json,
                       current_env>>

\* prepare of the trainer builder (lines 531-534) as far as open(..., "w")
\* of line 499: <name>_config.json is created or truncated.
OpenManifest(p) ==
    /\ b[p].pc = "prepare"
    /\ b[p].builder.cls = "AiTrainerImageBuilder"
    /\ config_json' = OpenForWriting(EmptyK8s)
    /\ b' = [b EXCEPT ![p].pc = "prepare_manifest"]
    /\ UNCHANGED <<disk, cache, images, ghosts, env_file, location_files,
                   current_env>>

----------------------------------------------------------------------------
(* build_image_s2i, wrapped by reset_workdir *)

\* A failure after which the build stays where it is and tries again.
RetryOperation(st, error) == st

\* An exception inside build_image_s2i: nothing in lines 283-338 catches it
\* (but ImageNotFound of the base lookup), it leaves through reset_workdir.
Raise(st, error) == [st EXCEPT !.pc = "s2i_exit", !.raising = error]

\* reset_workdir's `cwd = os.getcwd()`, then lines 283-287 of the body.
EnterS2I(p) ==
    /\ b[p].pc = "s2i_enter"
    /\ b' = [b EXCEPT ![p] =
          [@ EXCEPT
              !.pc = "track_hashes",
              !.saved_cwd = b[p].cwd,
              !.k8s_mode = IsK8sMode(b[p].builder.orchestrator),
              !.lambda_mode = IsLambdaMode(b[p].builder.orchestrator),
              !.from_scratch = b[p].args.build_all_layers,
              !.cwd = Location]]
    /\ UNCHANGED world

\* _track_changes, lines 210-239: .hash.json.
\* A loop that passes over the files it cannot open.
NoMissingFiles(files, d) == {}

\* The tracked files `open(os.path.abspath(file), "rb")` cannot open.
MissingFiles(files, d) == {f \in files : d[f] = 0}

\* A loop that persists every hash as soon as it has it.
PartialHashes(files, hash_content, d) ==
    [f \in TrackedFiles |->
        IF f \in files /\ d[f] # 0 THEN sha256(d[f]) ELSE hash_content[f]]

\* Line 233 raises inside the loop, before the dump of lines 238-239:
\* .hash.json holds what was loaded from it ({} when it was just created).
UnwrittenHashes(files, hash_content, d) == hash_content

\* Lines 226 and 243, `if not os.path.exists(file)`: the test of the cache
\* file the process stands at.
CacheFileExists(p) ==
    /\ b[p].pc \in {"track_hashes", "track_orchestrator"}
    /\ b' = [b EXCEPT ![p].pc =
          IF b[p].pc = "track_hashes"
          THEN (IF hash_file.exists THEN "hash_load" ELSE "hash_create")
          ELSE (IF orchestrator_file.exists THEN "orch_load" ELSE "orch_create")]
    /\ UNCHANGED world

\* Lines 227, 238, 244 and 251, open(file, "w"): the file is created or
\* truncated, and it is empty until a dump is written and its file closed.
CacheFileOpen(p) ==
    /\ b[p].pc \in {"hash_create", "hash_open", "orch_create", "orch_open"}
    /\ hash_file' =
          IF b[p].pc \in {"hash_create", "hash_open"}
          THEN OpenForWriting(EmptyHashes)
          ELSE hash_file
    /\ orchestrator_file' =
          IF b[p].pc \in {"orch_create", "orch_open"}
          THEN OpenForWriting(EmptyOrchestrator)
          ELSE orchestrator_file
    /\ b' = [b EXCEPT ![p].pc =
          CASE b[p].pc = "hash_create" -> "hash_init"
            [] b[p].pc = "hash_open" -> "hash_dump"
            [] b[p].pc = "orch_create" -> "orch_init"
            [] b[p].pc = "orch_open" -> "orch_dump"]
    /\ UNCHANGED <<disk, images, ghosts, env_file, generated, current_env>>

\* Lines 229-237: json.load of .hash.json (an empty file, or a document with
\* bytes of another behind it, is no JSON document) and the loop over the
\* tracked files.
TrackHashes(p) ==
    LET files == TrackedBy(b[p].builder)
        hash_content == LoadHashes(hash_file)
        missing == MissingFiles(files, disk) # {}
        undecodable == hash_file.size # HashesLen(hash_file.content)
    IN  /\ b[p].pc = "hash_load"
        /\ hash_file' =
              IF ~undecodable /\ missing
              THEN [hash_file EXCEPT
                      !.content = UnwrittenHashes(files, hash_content, disk)]
              ELSE hash_file
        /\ b' = [b EXCEPT ![p] =
              IF undecodable
              THEN Raise(Log(@, Ev("track_hashes", "", "", FALSE, EmptyEnv)),
                         "JSONDecodeError")
              ELSE IF missing
              THEN Raise(Log(@, Ev("track_hashes", "", "", FALSE, EmptyEnv)),
                         "FileNotFoundError")
              ELSE [Log(@, Ev("track_hashes", "",
                              IF HashesChanged(files, hash_content, disk)
                              THEN "changed" ELSE "unchanged",
                              TRUE, EmptyEnv)) EXCEPT
                      !.pc = "hash_open",
                      !.new_hash = NewHashes(files, hash_content, disk),
                      !.changes_in_build =
                          HashesChanged(files, hash_content, disk)]]
        /\ UNCHANGED <<disk, orchestrator_file, images, ghosts, env_file,
                       generated, current_env>>

\* Lines 228 and 239: json.dump({}, f_hash) into the file just created,
\* json.dump(new_hash, f_hash) after the loop, and the close.
DumpHashes(p) ==
    /\ b[p].pc \in {"hash_init", "hash_dump"}
    /\ hash_file' =
          IF b[p].pc = "hash_init"
          THEN WriteAndClose(hash_file, EmptyHashes, HashesLen(EmptyHashes))
          ELSE WriteAndClose(hash_file, b[p].new_hash, HashesLen(b[p].new_hash))
    /\ b' = [b EXCEPT ![p] =
          [@ EXCEPT
              !.pc = IF b[p].pc = "hash_init" THEN "hash_load"
                     ELSE "track_orchestrator",
              !.new_hash = EmptyHashes]]
    /\ UNCHANGED <<disk, orchestrator_file, images, ghosts, env_file,
                   generated, current_env>>

\* An orchestrator record that is written back as it was read.
StaleOrchestrator(orchestrator, cached_op_type) == cached_op_type

\* Line 252: json.dump({"orchestrator": self.orchestrator}, ...).
NewOrchestrator(orchestrator, cached_op_type) == [orchestrator |-> orchestrator]

\* Lines 246-250: json.load of .orchestrator.txt (which raises as that of
\* .hash.json does) and the comparison.
TrackOrchestrator(p) ==
    LET self == b[p].builder
        cached_op_type == LoadOrchestrator(orchestrator_file)
    IN  /\ b[p].pc = "orch_load"
        /\ b' = [b EXCEPT ![p] =
              IF orchestrator_file.size
                 # OrchestratorLen(orchestrator_file.content)
              THEN Raise(Log(@, Ev("track_orchestrator", "", "", FALSE,
                                   EmptyEnv)),
                         "JSONDecodeError")
              ELSE [Log(@, Ev("track_orchestrator",
                              DictGet(cached_op_type, "orchestrator"), "",
                              TRUE, EmptyEnv)) EXCEPT
                      !.pc = "orch_open",
                      !.cached_op_type = cached_op_type,
                      !.changes_in_build =
                          b[p].changes_in_build
                          \/ OrchestratorChanged(self.orchestrator,
                                                 cached_op_type)]]
        /\ UNCHANGED world

\* Lines 245 and 252: json.dump({}, ...) into the file just created,
\* json.dump({"orchestrator": ...}, ...) after the comparison, and the
\* close; after the second, _track_changes returns (line 254).
DumpOrchestrator(p) ==
    LET self == b[p].builder
        dumped == IF b[p].pc = "orch_init" THEN EmptyOrchestrator
                  ELSE NewOrchestrator(self.orchestrator, b[p].cached_op_type)
    IN  /\ b[p].pc \in {"orch_init", "orch_dump"}
        /\ orchestrator_file' =
              WriteAndClose(orchestrator_file, dumped, OrchestratorLen(dumped))
        /\ last_track' =
              IF b[p].pc = "orch_init" THEN last_track
              ELSE [ran |-> TRUE, files |-> TrackedBy(self),
                    disk |-> [f \in TrackedFiles |->
                                IF f \in TrackedBy(self) THEN disk[f] ELSE 0],
                    orchestrator |-> self.orchestrator]
        /\ b' = [b EXCEPT ![p] =
              [@ EXCEPT
                  !.pc = IF b[p].pc = "orch_init" THEN "orch_load"
                         ELSE "resolve",
                  !.cached_op_type = EmptyOrchestrator]]
        /\ UNCHANGED <<disk, hash_file, images, pip_layer_src, prev_build,
                       env_file, generated, current_env>>

\* The base image build_image_s2i asks for (line 291).
ResolveBaseImage(args, lambda_mode, k8s_mode) ==
    _get_base_name(args.enable_eia, lambda_mode, args.enable_cuda,
                   args.cuda_devel, k8s_mode, BaseImageVersion, FALSE)

\* Lines 290-292: get_docker_client() and _get_base_name.
Resolve(p, docker_up) ==
    LET base == ResolveBaseImage(b[p].args, b[p].lambda_mode, b[p].k8s_mode)
    IN  /\ b[p].pc = "resolve"
        /\ b' = [b EXCEPT ![p] =
              IF ~docker_up
              THEN Raise(Log(@, Ev("get_docker_client", "", "", FALSE, EmptyEnv)),
                         "DockerException")
              ELSE IF base.error # ""
              THEN Raise(Log(@, Ev("resolve", "", "", FALSE, EmptyEnv)),
                         base.error)
              ELSE [Log(@, Ev("resolve", "", base.name, TRUE, EmptyEnv)) EXCEPT
                      !.pc = IF b[p].args.download_base THEN "forced_download"
                             ELSE "lookup_base",
                      !.base_image = base.name]]
        /\ UNCHANGED world

\* The steps of _download_base_image, in order.
DownloadSteps == <<"sts", "ecr_login", "pull", "docker_pull", "tag">>

\* What a pull reports: whether the store already held the image.
PullStatus(store, name) ==
    IF name \in store THEN "Image is up to date" ELSE "Downloaded newer image"

\* The event of step i of a download, which fails there or goes on.
DownloadEvent(store, base_image, i, failed) ==
    Ev(DownloadSteps[i], ecr_image_name(base_image),
       IF DownloadSteps[i] = "tag" THEN base_image
       ELSE IF DownloadSteps[i] = "pull"
       THEN PullStatus(store, ecr_image_name(base_image))
       ELSE "",
       ~failed, EmptyEnv)

\* A download that leaves the image store as it was.
DownloadNothing(store, base_image, failed) == store

\* A download that pulls the image and does not re-tag it.
DownloadUntagged(store, base_image, failed) ==
    IF failed = 0 \/ failed > 3 THEN store \cup {ecr_image_name(base_image)}
    ELSE store

\* The image store of a download that fails at step `failed` (0: at none).
DownloadImages(store, base_image, failed) ==
    IF failed = 0 THEN store \cup {ecr_image_name(base_image), base_image}
    ELSE IF failed > 3 THEN store \cup {ecr_image_name(base_image)}
    ELSE store

\* A forced download that leaves the caller's flag as it is.
KeptFromScratch(from_scratch) == from_scratch

\* Line 296: a forced download makes the build start from scratch.
AfterForcedDownload(from_scratch) == TRUE

\* _download_base_image, called at line 294 (forced) or 302 (fallback): one
\* of its blocking calls (lines 379-389), which fails or returns.  The store
\* holds what a download holds that is yet to fail at the next call.
Download(p, failed) ==
    LET i == b[p].step
        last == i = Len(DownloadSteps)
    IN  /\ b[p].pc \in {"forced_download", "fallback_download"}
        /\ images' = IF failed THEN images
                     ELSE DownloadImages(images, b[p].base_image,
                                         IF last THEN 0 ELSE i + 1)
        /\ b' = [b EXCEPT ![p] =
              LET st == [Log(@, DownloadEvent(images, b[p].base_image, i,
                                              failed)) EXCEPT
                           !.step = IF failed \/ last THEN 1 ELSE i + 1]
              IN  IF failed THEN Raise(st, "DownloadError")
                  ELSE IF ~last THEN st
                  ELSE IF b[p].pc = "forced_download"
                  THEN [st EXCEPT
                          !.pc = "lookup_base",
                          !.from_scratch =
                              AfterForcedDownload(b[p].from_scratch)]
                  ELSE [st EXCEPT !.pc = "which_s2i"]]
        /\ UNCHANGED <<disk, cache, ghosts, env_file, generated, current_env>>

\* client.images.get(name): "found", "ImageNotFound", or another API error.
ImagesGet(store, name, api_ok) ==
    IF ~api_ok THEN "APIError"
    ELSE IF name \in store THEN "found" ELSE "ImageNotFound"

\* A handler that takes every failed lookup for an absent image.
ExceptAnyError(got) ==
    IF got = "found" THEN "which_s2i" ELSE "fallback_download"

\* Lines 297-302, try / except ImageNotFound: where the build goes on after
\* the lookup; "" when the exception is not caught.
ExceptImageNotFound(got) ==
    IF got = "found" THEN "which_s2i"
    ELSE IF got = "ImageNotFound" THEN "fallback_download"
    ELSE ""

\* Lines 297-302.
LookupBase(p, api_ok) ==
    LET got == ImagesGet(images, b[p].base_image, api_ok)
    IN  /\ b[p].pc = "lookup_base"
        /\ b' = [b EXCEPT ![p] =
              LET st == Log(@, Ev("images.get", b[p].base_image, got,
                                  got = "found", EmptyEnv))
              IN  IF ExceptImageNotFound(got) # ""
                  THEN [st EXCEPT !.pc = ExceptImageNotFound(got)]
                  ELSE Raise(st, got)]
        /\ UNCHANGED world

\* A check that goes on without the build tool.
WhichIgnored(installed) == ""

\* Lines 303-308: `if shutil.which("s2i") is None: raise ModuleNotFoundError`;
\* "" when nothing is raised.
WhichIsNone(installed) == IF installed THEN "" ELSE "ModuleNotFoundError"

\* Lines 303-308: shutil.which("s2i").
WhichS2I(p, installed) ==
    /\ b[p].pc = "which_s2i"
    /\ b' = [b EXCEPT ![p] =
          LET st == Log(@, Ev("which", "s2i", "", installed, EmptyEnv))
          IN  IF WhichIsNone(installed) = "" THEN [st EXCEPT !.pc = "gate"]
              ELSE Raise(st, WhichIsNone(installed))]
    /\ UNCHANGED world

----------------------------------------------------------------------------
(* The two stages *)

\* A runner that does not look at the exit code.
IgnoredExit(exit_ok) == ""

\* superai.utils.system(command): runs the command to completion; a nonzero
\* exit is raised to the caller.  "" = it returned.
system(exit_ok) == IF exit_ok THEN "" ELSE "CommandError"

\* The build tool can only succeed on a source image the store holds.
ExitCodes(store, src) == IF src \in store THEN BOOLEAN ELSE {FALSE}

\* Lines 362-370, the command line and system(command): [event, error], the
\* invocation with the environment file the build tool reads when it
\* starts, and what the call raises when the tool has exited.
_create_prediction_image_s2i(env, base_image_tag, image_tag, exit_ok) ==
    [event |-> Ev("s2i", base_image_tag, image_tag, exit_ok, env),
     error |-> system(exit_ok)]

\* An environment file stage 1 takes as it finds it.
KeptEnvirons(env) == env

\* Line 319, before stage 1, and line 327, before stage 2.
Stage1Environs(env) == delete(env, "BUILD_PIP")

Stage2Environs(env) == add_or_update_line(env, "BUILD_PIP=false")

\* A gate that takes the caller's flag where the code takes the detected
\* change: it skips stage 1 on changed inputs.
GateIgnoringChanges(changes_in_build, from_scratch, got) ==
    IF changes_in_build THEN from_scratch
    ELSE IF got = "ImageNotFound" THEN TRUE
    ELSE from_scratch

\* A gate that forgets what the caller asked for.
GateIgnoringCaller(changes_in_build, from_scratch, got) ==
    changes_in_build \/ got = "ImageNotFound"

\* A gate that always starts from scratch.
GateAlwaysScratch(changes_in_build, from_scratch, got) == TRUE

\* Lines 309-317: from_scratch after the gate, given whether the
\* dependency-layer image was found (looked up only when nothing changed).
GateFromScratch(changes_in_build, from_scratch, got) ==
    IF changes_in_build THEN TRUE
    ELSE IF got = "ImageNotFound" THEN TRUE
    ELSE from_scratch

Gate(p, api_ok) ==
    LET layer == pip_layer_name(ModelName, ModelVersion)
        got == ImagesGet(images, layer, api_ok)
        scratch == GateFromScratch(b[p].changes_in_build, b[p].from_scratch, got)
    IN  /\ b[p].pc = "gate"
        /\ b[p].changes_in_build => api_ok
        /\ b' = [b EXCEPT ![p] =
              LET st == IF b[p].changes_in_build THEN @
                        ELSE Log(@, Ev("images.get", layer, got,
                                       got = "found", EmptyEnv))
              IN  IF ~b[p].changes_in_build /\ got = "APIError"
                  THEN Raise(st, got)
                  ELSE [st EXCEPT
                          !.pc = IF scratch THEN "stage1" ELSE "stage2",
                          !.from_scratch = scratch]]
        /\ UNCHANGED world

\* What the dependency layer is built from: the location's files as the
\* build tool reads them, the builder's orchestrator and the base image.
LayerSource(p) ==
    [disk |-> disk, orchestrator |-> b[p].builder.orchestrator,
     base_image |-> b[p].base_image]

\* Line 319: self.environs.delete("BUILD_PIP").
Stage1(p) ==
    /\ b[p].pc = "stage1"
    /\ env_file' = Stage1Environs(env_file)
    /\ b' = [b EXCEPT ![p].pc = "stage1_environs"]
    /\ UNCHANGED <<disk, cache, images, ghosts, generated, current_env>>

\* Line 327: self.environs.add_or_update("BUILD_PIP=false").
Stage2(p) ==
    /\ b[p].pc = "stage2"
    /\ env_file' = Stage2Environs(env_file)
    /\ b' = [b EXCEPT ![p].pc = "stage2_environs"]
    /\ UNCHANGED <<disk, cache, images, ghosts, generated, current_env>>

\* Lines 354-361: one add_or_update call of _create_prediction_image_s2i.
InjectEnviron(p) ==
    LET lines == EnvironLines(b[p].lambda_mode, b[p].k8s_mode)
        i == b[p].step
    IN  /\ b[p].pc \in {"stage1_environs", "stage2_environs"}
        /\ env_file' = add_or_update(env_file, lines[i][1], lines[i][2])
        /\ b' = [b EXCEPT ![p] =
              IF i < Len(lines) THEN [@ EXCEPT !.step = i + 1]
              ELSE [@ EXCEPT
                      !.step = 1,
                      !.pc = IF b[p].pc = "stage1_environs" THEN "stage1_s2i"
                             ELSE "stage2_s2i"]]
        /\ UNCHANGED <<disk, cache, images, ghosts, generated, current_env>>

\* Line 370, system(command): the build tool starts.  It reads the
\* environment file and takes the source image from the store; exit_ok is
\* how it will exit.
StartS2I(p, exit_ok) ==
    LET stage1 == b[p].pc = "stage1_s2i"
        layer == pip_layer_name(ModelName, ModelVersion)
        src == IF stage1 THEN b[p].base_image ELSE layer
        tgt == IF stage1 THEN layer
               ELSE full_image_name(ModelName, ModelVersion)
    IN  /\ b[p].pc \in {"stage1_s2i", "stage2_s2i"}
        /\ exit_ok \in ExitCodes(images, src)
        /\ b' = [b EXCEPT ![p] =
              [@ EXCEPT
                  !.pc = IF stage1 THEN "stage1_wait" ELSE "stage2_wait",
                  !.running = _create_prediction_image_s2i(
                                  env_file, src, tgt, exit_ok).event]]
        /\ UNCHANGED world

\* Line 370: the build tool exits, system(command) returns or raises; then
\* lines 326 and 335-338.
ExitS2ITool(p) ==
    LET stage1 == b[p].pc = "stage1_wait"
        run == b[p].running
        done == [Log(b[p], run) EXCEPT
                   !.running = Ev("", "", "", FALSE, EmptyEnv)]
    IN  /\ b[p].pc \in {"stage1_wait", "stage2_wait"}
        /\ images' = IF run.ok THEN images \cup {run.tgt} ELSE images
        /\ pip_layer_src' = IF stage1 /\ run.ok THEN LayerSource(p)
                            ELSE pip_layer_src
        /\ b' = [b EXCEPT ![p] =
              IF system(run.ok) # "" THEN Raise(done, system(run.ok))
              ELSE IF stage1 THEN [done EXCEPT !.pc = "stage2"]
              ELSE [done EXCEPT !.pc = "s2i_exit", !.ret = run.tgt]]
        /\ UNCHANGED <<disk, cache, last_track, prev_build, env_file,
                       generated, current_env>>

\* A wrapper without the finally clause.
KeptCwd(cwd, saved_cwd) == cwd

\* reset_workdir's `finally: os.chdir(cwd)`.
RestoredCwd(cwd, saved_cwd) == saved_cwd

\* Whether the build's stage 2 failed after its stage 1 had succeeded.
Stage2FailedAfterStage1(trace) ==
    /\ Len(S2IEvents(trace)) = 2
    /\ S2IEvents(trace)[1].ok
    /\ ~S2IEvents(trace)[2].ok

Summary(p) ==
    IF Stage2FailedAfterStage1(b[p].trace)
    THEN [stage2_failed |-> TRUE, files |-> TrackedBy(b[p].builder),
          disk |-> disk, orchestrator |-> b[p].builder.orchestrator]
    ELSE NoPrev

\* build_image_s2i returns or raises through reset_workdir; an exception
\* leaves build_image too.
ExitS2I(p) ==
    /\ b[p].pc = "s2i_exit"
    /\ prev_build' = IF b[p].raising # "" THEN Summary(p) ELSE prev_build
    /\ b' = [b EXCEPT ![p] =
          IF b[p].raising # ""
          THEN [@ EXCEPT
                  !.pc = "done", !.outcome = "raised", !.error = b[p].raising,
                  !.cwd = RestoredCwd(b[p].cwd, b[p].saved_cwd)]
          ELSE [@ EXCEPT
                  !.pc = "properties",
                  !.cwd = RestoredCwd(b[p].cwd, b[p].saved_cwd)]]
    /\ UNCHANGED <<disk, cache, images, pip_layer_src, last_track, env_file,
                   generated, current_env>>

\* build_image, lines 196-204: get_deployment_properties, which for a
\* Kubernetes orchestrator goes as far as open(..., "w") of line 499 and for
\* any other returns, and build_image with it.
Properties(p) ==
    LET self == b[p].builder
        args == b[p].args
        props == get_deployment_properties(
                     self.orchestrator, args.properties, b[p].ret,
                     args.enable_cuda, args.kwargs)
    IN  /\ b[p].pc = "properties"
        /\ config_json' = IF IsK8sMode(self.orchestrator)
                          THEN OpenForWriting(EmptyK8s)
                          ELSE config_json
        /\ prev_build' = IF IsK8sMode(self.orchestrator) THEN prev_build
                         ELSE NoPrev
        /\ b' = [b EXCEPT ![p] =
              IF IsK8sMode(self.orchestrator)
              THEN [@ EXCEPT !.pc = "properties_manifest", !.properties = props]
              ELSE [Log(@, Ev("properties", "", "", TRUE, EmptyEnv)) EXCEPT
                      !.pc = "done", !.outcome = "returned",
                      !.image_name = b[p].ret, !.properties = props]]
        /\ UNCHANGED <<disk, cache, images, pip_layer_src, last_track, env_file,
                       location_files, current_env>>

\* Line 500, the dump of the manifest into the file just opened and the
\* close; prepare of the trainer builder returns (line 501, 534), or
\* get_deployment_properties and build_image do (lines 523, 204).
WriteManifest(p) ==
    LET preparing == b[p].pc = "prepare_manifest"
        kubernetes_config ==
            IF preparing
            THEN _prepare_k8s_parameters(b[p].args.kwargs, None, EmptyK8s)
            ELSE b[p].properties.k8s
    IN  /\ b[p].pc \in {"prepare_manifest", "properties_manifest"}
        /\ config_json' = DumpManifest(config_json, kubernetes_config)
        /\ prev_build' = IF preparing THEN prev_build ELSE NoPrev
        /\ b' = [b EXCEPT ![p] =
              IF preparing THEN AfterPrepare(@)
              ELSE [Log(@, Ev("properties", "", "", TRUE, EmptyEnv)) EXCEPT
                      !.pc = "done", !.outcome = "returned",
                      !.image_name = b[p].ret]]
        /\ UNCHANGED <<disk, cache, images, pip_layer_src, last_track, env_file,
                       location_files, current_env>>

----------------------------------------------------------------------------
(* The caller's side *)

\* Between builds the caller rewrites (or removes, content 0) a dependency
\* file of the build location.
EditFile(f, content) ==
    /\ \A p \in Procs : Idle(p)
    /\ disk[f] # content
    /\ disk' = [disk EXCEPT ![f] = content]
    /\ UNCHANGED <<cache, images, ghosts, env_file, generated, current_env, b>>

\* The caller takes what the constructor or build_image returned or raised;
\* the builder and the process's working directory stay as they are.
TakeResult(p) ==
    /\ b[p].pc = "done"
    /\ b' = [b EXCEPT ![p] =
          [InitProc EXCEPT
              !.pc = IF b[p].builder = NoBuilder THEN "new" ELSE "ready",
              !.builder = b[p].builder,
              !.cwd = b[p].cwd]]
    /\ UNCHANGED world

\* Every step of a running build.
Step(p) ==
    \/ OpenGenerated(p)
    \/ WriteGenerated(p)
    \/ EnterS2I(p)
    \/ CacheFileExists(p)
    \/ CacheFileOpen(p)
    \/ TrackHashes(p)
    \/ DumpHashes(p)
    \/ TrackOrchestrator(p)
    \/ DumpOrchestrator(p)
    \/ \E docker_up \in BOOLEAN : Resolve(p, docker_up)
    \/ \E failed \in BOOLEAN : Download(p, failed)
    \/ \E api_ok \in BOOLEAN : LookupBase(p, api_ok)
    \/ \E installed \in BOOLEAN : WhichS2I(p, installed)
    \/ \E api_ok \in BOOLEAN : Gate(p, api_ok)
    \/ Stage1(p)
    \/ Stage2(p)
    \/ InjectEnviron(p)
    \/ \E exit_ok \in BOOLEAN : StartS2I(p, exit_ok)
    \/ ExitS2ITool(p)
    \/ ExitS2I(p)
    \/ Properties(p)
    \/ TakeResult(p)

----------------------------------------------------------------------------
(* The build pipeline of the prediction builder, one caller *)

MainOrchestrators == {"LOCAL_DOCKER", "AWS_SAGEMAKER"}

MainEnvs == {<<>>, <<(<<"BUILD_PIP", "true">>)>>}

MainCalls ==
    {[DefaultArgs EXCEPT
        !.skip_build = skip, !.build_all_layers = all, !.download_base = dl,
        !.envs = envs] :
     skip \in BOOLEAN, all \in BOOLEAN, dl \in BOOLEAN, envs \in MainEnvs}

Init ==
    InitWorld([f \in TrackedFiles |-> 1], "prod")

Next ==
    \/ \E orchestrator \in MainOrchestrators, requirements \in BOOLEAN :
          Construct(1, "AiImageBuilder", Member("Orchestrator", orchestrator),
                    requirements, FALSE, FALSE)
    \/ \E args \in MainCalls : build_image(1, args)
    \/ UpdateEnviron(1)
    \/ Step(1)
    \/ \E content \in 0 .. NumContents : EditFile("requirements.txt", content)

Spec == Init /\ [][Next]_vars

----------------------------------------------------------------------------
(* What the claims speak of *)

LayerImage == "my_model-pip-layer:1"

FullImage == "my_model:1"

\* The positions of a stage: before its BUILD_PIP line, before an injected
\* line, before the build tool starts, and while it runs.
Stage1Positions == {"stage1", "stage1_environs", "stage1_s2i", "stage1_wait"}

Stage2Positions == {"stage2", "stage2_environs", "stage2_s2i", "stage2_wait"}

\* The positions inside build_image_s2i.
InS2I ==
    {"track_hashes", "hash_create", "hash_init", "hash_load", "hash_open",
     "hash_dump", "track_orchestrator", "orch_create", "orch_init",
     "orch_load", "orch_open", "orch_dump", "resolve", "forced_download",
     "lookup_base", "fallback_download", "which_s2i", "gate", "s2i_exit"}
    \cup Stage1Positions \cup Stage2Positions

Has(trace, op) == \E i \in 1 .. Len(trace) : trace[i].op = op /\ trace[i].ok

\* The build found the build tool, so it came to the stage gate.
GateReached(st) == Has(st.trace, "which")

\* The build is past its last build-tool invocation.
StagesOver(st) == st.pc \in {"s2i_exit", "properties", "done"} /\ GateReached(st)

\* The gate's lookup found the dependency-layer image.
LayerFound(trace) ==
    \E i \in 1 .. Len(trace) :
        trace[i].op = "images.get" /\ trace[i].src = LayerImage
        /\ trace[i].tgt = "found"

IsStage1(st, e) == e.op = "s2i" /\ e.src = st.base_image /\ e.tgt = LayerImage

IsStage2(e) == e.op = "s2i" /\ e.src = LayerImage /\ e.tgt = FullImage

Forced(st) == st.args.build_all_layers \/ st.args.download_base

\* C1: whenever a build reports changed = false and skips stage 1, the
\* dependency-layer image it reuses was built from tracked-file contents and
\* an orchestrator equal to the current ones, also after earlier builds
\* halted on a fatal error once change detection had run.
C1_ReusedLayerIsCurrent ==
    \A p \in Procs :
        (b[p].pc = "stage2" /\ ~b[p].changes_in_build /\ ~b[p].from_scratch)
        => /\ pip_layer_src.orchestrator = b[p].builder.orchestrator
           /\ \A f \in TrackedBy(b[p].builder) : pip_layer_src.disk[f] = disk[f]

\* C2 as stated: in a build that came to the gate, changed = false and the
\* dependency-layer image present mean exactly one build-tool invocation
\* (stage 2); changed = true means exactly two, stage 1 and then stage 2.
C2_Original ==
    \A p \in Procs :
        LET st == b[p]
            s == S2IEvents(st.trace)
        IN  StagesOver(st) =>
              /\ (~st.changes_in_build /\ LayerFound(st.trace))
                 => (Len(s) = 1 /\ IsStage2(s[1]))
              /\ st.changes_in_build
                 => (Len(s) = 2 /\ IsStage1(st, s[1]) /\ IsStage2(s[2]))

\* C2, amended: in a build that came to the gate, changed = false, the
\* dependency-layer image found and neither build_all_layers nor download_base
\* requested mean that stage 1 is skipped and the build tool is invoked exactly
\* once (stage 2); changed = true means that the first invocation is stage 1
\* (base image -> pip layer), the only one when it fails and followed by
\* exactly one more, stage 2 (pip layer -> name:version), when it succeeds.
C2_LayerReuse ==
    \A p \in Procs :
        LET st == b[p]
            s == S2IEvents(st.trace)
        IN  StagesOver(st) =>
              /\ (~st.changes_in_build /\ LayerFound(st.trace) /\ ~Forced(st))
                 => (Len(s) = 1 /\ IsStage2(s[1]))
              /\ st.changes_in_build
                 => /\ Len(s) >= 1 /\ IsStage1(st, s[1])
                    /\ ~s[1].ok => Len(s) = 1
                    /\ s[1].ok => (Len(s) = 2 /\ IsStage2(s[2]))

\* A second build found nothing changed and the layer present, and ran
\* stage 2 alone.
C2_Witness ==
    /\ b[1].pc = "s2i_exit"
    /\ ~b[1].changes_in_build /\ LayerFound(b[1].trace) /\ ~Forced(b[1])
    /\ Len(S2IEvents(b[1].trace)) = 1
    /\ S2IEvents(b[1].trace)[1].ok

----------------------------------------------------------------------------
(* Change detection over two tracked files, one caller *)

CacheFiles == {"environment.yml", "setup.sh"}

\* The caller declares either of two dependency files, rewrites or removes
\* either between builds, and builds with the default arguments; the Docker
\* daemon is down, so that every build ends once change detection has run.
CacheNext ==
    \/ \E orchestrator \in MainOrchestrators,
          conda_env \in BOOLEAN, artifacts_run \in BOOLEAN :
          Construct(1, "AiImageBuilder", Member("Orchestrator", orchestrator),
                    FALSE, conda_env, artifacts_run)
    \/ build_image(1, DefaultArgs)
    \/ OpenGenerated(1)
    \/ WriteGenerated(1)
    \/ EnterS2I(1)
    \/ CacheFileExists(1)
    \/ CacheFileOpen(1)
    \/ TrackHashes(1)
    \/ DumpHashes(1)
    \/ TrackOrchestrator(1)
    \/ DumpOrchestrator(1)
    \/ Resolve(1, FALSE)
    \/ ExitS2I(1)
    \/ TakeResult(1)
    \/ \E f \in CacheFiles, content \in 0 .. NumContents :
          EditFile(f, content)

SpecCache == Init /\ [][CacheNext]_vars

\* A change-detection run of process p completes in this step.
TrackCompletes(p) ==
    b[p].pc = "orch_dump" /\ b'[p].pc = "resolve"

\* C3: of two consecutive change-detection runs, the second reports
\* changed = false when the orchestrator is the same and every file it tracks
\* was tracked by the first run with the same contents.
C3_CacheIdempotence ==
    [][\A p \in Procs :
          (/\ TrackCompletes(p)
           /\ last_track.ran
           /\ last_track.orchestrator = b[p].builder.orchestrator
           /\ TrackedBy(b[p].builder) \subseteq last_track.files
           /\ \A f \in TrackedBy(b[p].builder) : last_track.disk[f] = disk[f])
          => ~b'[p].changes_in_build]_vars

\* A run over both files, one of them rewritten since the start, has
\* reported changed = false.
C3_Witness ==
    /\ b[1].pc = "resolve" /\ ~b[1].changes_in_build
    /\ TrackedBy(b[1].builder) = CacheFiles
    /\ disk["setup.sh"] = 2

\* C4: of two consecutive change-detection runs, the second reports
\* changed = true when a file both runs track has different bytes, and when
\* the orchestrator differs (whatever the files).
C4_CacheSensitivity ==
    [][\A p \in Procs :
          (TrackCompletes(p) /\ last_track.ran)
          => /\ (\E f \in TrackedBy(b[p].builder) \cap last_track.files :
                     last_track.disk[f] # disk[f])
                 => b'[p].changes_in_build
             /\ last_track.orchestrator # b[p].builder.orchestrator
                 => b'[p].changes_in_build]_vars

\* Only the orchestrator differs from the previous run's, every tracked file
\* is as it was, and the run has reported changed = true.
C4_Witness ==
    /\ b[1].pc = "resolve" /\ b[1].changes_in_build
    /\ TrackedBy(b[1].builder) = CacheFiles
    /\ b[1].trace[Len(b[1].trace)].op = "track_orchestrator"
    /\ b[1].trace[Len(b[1].trace) - 1].tgt = "unchanged"

\* The events of a trace with the given operation.
EventsOf(trace, op) == SelectSeq(trace, LAMBDA e : e.op = op)

\* C5 as stated, for the builds that return: a build invoked with
\* download_base = true has pulled the base image and run stage 1 and stage 2.
C5_Original ==
    \A p \in Procs :
        LET st == b[p]
            s == S2IEvents(st.trace)
        IN  (st.pc = "done" /\ st.outcome = "returned" /\ st.args.download_base)
            => /\ Has(st.trace, "pull")
               /\ Len(s) = 2 /\ IsStage1(st, s[1]) /\ IsStage2(s[2])

\* C5, amended: in a build invoked with download_base = true and
\* skip_build = false, the download of the base image starts right after the
\* resolution, before any local lookup; every later step has a successful
\* registry pull behind it and from_scratch = true; stage 2 is reached only
\* through a successful stage 1; and a build that returns has pulled the base
\* image and run stage 1 and then stage 2, whatever the change detection, the
\* dependency-layer lookup and build_all_layers said.
C5_ForcedRefresh ==
    \A p \in Procs :
        LET st == b[p]
            s == S2IEvents(st.trace)
        IN  (st.args.download_base /\ ~st.args.skip_build)
            => /\ \A i \in 1 .. Len(st.trace) - 1 :
                      (st.trace[i].op = "resolve" /\ st.trace[i].ok)
                      => st.trace[i + 1].op = "sts"
               /\ (\E i \in 1 .. Len(st.trace) : st.trace[i].op = "images.get")
                  => (Has(st.trace, "pull") /\ Has(st.trace, "tag")
                      /\ st.from_scratch)
               /\ st.pc = "stage2"
                  => (Len(s) = 1 /\ IsStage1(st, s[1]) /\ s[1].ok)
               /\ (st.pc = "done" /\ st.outcome = "returned")
                  => /\ Has(st.trace, "pull")
                     /\ Len(s) = 2
                     /\ IsStage1(st, s[1]) /\ s[1].ok
                     /\ IsStage2(s[2]) /\ s[2].ok

\* A build with download_base = true and build_all_layers = false has returned:
\* the base image was present (the pull reported it up to date), nothing had
\* changed and the dependency layer was found, and both stages ran.
C5_Witness ==
    /\ b[1].pc = "done" /\ b[1].outcome = "returned"
    /\ b[1].args.download_base /\ ~b[1].args.build_all_layers
    /\ ~b[1].args.skip_build
    /\ ~b[1].changes_in_build /\ LayerFound(b[1].trace)
    /\ EventsOf(b[1].trace, "pull")[1].tgt = "Image is up to date"
    /\ Len(S2IEvents(b[1].trace)) = 2

\* C6: a failed build-tool invocation is the last one of its build (after a
\* failed stage 1 there is no stage 2), the failure is what the build raises,
\* and the build returns no image name and no deployment properties.
C6_StageFailurePropagates ==
    \A p \in Procs :
        LET st == b[p]
            s == S2IEvents(st.trace)
        IN  /\ \A i \in 1 .. Len(s) : ~s[i].ok => i = Len(s)
            /\ (\E i \in 1 .. Len(s) : ~s[i].ok)
               => /\ st.pc \in {"s2i_exit", "done"}
                  /\ st.pc = "s2i_exit" => st.raising = "CommandError"
                  /\ st.pc = "done"
                     => (st.outcome = "raised" /\ st.error = "CommandError")
                  /\ st.ret = "" /\ st.image_name = ""
                  /\ st.properties = EmptyProperties

\* A build whose stage 1 failed is over: stage 1 was its only invocation.
C6_Witness ==
    /\ b[1].pc = "done" /\ b[1].outcome = "raised"
    /\ Len(S2IEvents(b[1].trace)) = 1
    /\ IsStage1(b[1], S2IEvents(b[1].trace)[1])
    /\ ~S2IEvents(b[1].trace)[1].ok

\* The build of st is the next attempt after a build whose stage 2 failed
\* after its stage 1 had succeeded, on the same tracked files with the same
\* contents and for the same orchestrator.
NextAttemptUnchanged(st) ==
    /\ st.pc \in InS2I
    /\ prev_build.stage2_failed
    /\ prev_build.orchestrator = st.builder.orchestrator
    /\ prev_build.files = TrackedBy(st.builder)
    /\ \A f \in TrackedBy(st.builder) : prev_build.disk[f] = disk[f]

\* C7 as stated: after such a failure the dependency-layer image is present,
\* and the next attempt with unchanged inputs never comes to stage 1.
C7_Original ==
    \A p \in Procs :
        /\ prev_build.stage2_failed => LayerImage \in images
        /\ NextAttemptUnchanged(b[p]) => b[p].pc # "stage1"

\* C7, amended: after a build whose stage 2 failed after a successful stage 1
\* the dependency-layer image is present; the next attempt with unchanged
\* tracked files and orchestrator reports changed = false, comes to stage 1
\* only when build_all_layers or download_base was requested, and otherwise,
\* once past the gate, has invoked the build tool for stage 2 alone.
C7_LayerKeptAfterStage2Failure ==
    \A p \in Procs :
        LET st == b[p]
            s == S2IEvents(st.trace)
        IN  /\ prev_build.stage2_failed => LayerImage \in images
            /\ NextAttemptUnchanged(st)
               => /\ ~st.changes_in_build
                  /\ ~Forced(st)
                     => /\ st.pc # "stage1"
                        /\ \A i \in 1 .. Len(s) : IsStage2(s[i])
                        /\ (st.pc = "s2i_exit" /\ GateReached(st)
                            /\ LayerFound(st.trace))
                           => Len(s) = 1

\* The next attempt after a stage-2 failure, with nothing changed and no
\* rebuild requested, has run stage 2 alone, successfully.
C7_Witness ==
    /\ NextAttemptUnchanged(b[1]) /\ ~Forced(b[1])
    /\ b[1].pc = "s2i_exit"
    /\ Len(S2IEvents(b[1].trace)) = 1
    /\ IsStage2(S2IEvents(b[1].trace)[1])
    /\ S2IEvents(b[1].trace)[1].ok

\* C8: outside build_image_s2i (before the call and after it has returned
\* or raised, at whichever step) the process is in the caller's directory.
C8_WorkdirRestored ==
    \A p \in Procs :
        b[p].pc \notin InS2I => b[p].cwd = CallerCwd

\* A build that failed in a stage is over, and the process is back in the
\* caller's directory.
C8_Witness ==
    /\ b[1].pc = "done" /\ b[1].outcome = "raised"
    /\ b[1].error = "CommandError"
    /\ b[1].saved_cwd = CallerCwd /\ b[1].cwd = CallerCwd

\* C9: a build with skip_build = false that returns has invoked the build tool
\* for stage 2 (pip layer -> name:version) exactly once, as its last
\* invocation, and returns exactly name:version.
C9_Stage2AlwaysRuns ==
    \A p \in Procs :
        LET st == b[p]
            s == S2IEvents(st.trace)
        IN  (st.pc = "done" /\ st.outcome = "returned" /\ ~st.args.skip_build)
            => /\ Len(s) >= 1
               /\ IsStage2(s[Len(s)]) /\ s[Len(s)].ok
               /\ \A i \in 1 .. Len(s) : IsStage2(s[i]) => i = Len(s)
               /\ st.image_name = FullImage

\* A build that skipped stage 1 has returned.
C9_Witness ==
    /\ b[1].pc = "done" /\ b[1].outcome = "returned" /\ ~b[1].args.skip_build
    /\ Len(S2IEvents(b[1].trace)) = 1
    /\ b[1].image_name = FullImage

\* C10: the environment file a stage-1 invocation reads has no BUILD_PIP, and
\* the one a stage-2 invocation reads has BUILD_PIP = false.
C10_BuildPipProtocol ==
    \A p \in Procs :
        LET st == b[p]
            s == S2IEvents(st.trace)
        IN  \A i \in 1 .. Len(s) :
                /\ IsStage1(st, s[i]) => s[i].env["BUILD_PIP"] = Unset
                /\ IsStage2(s[i]) => s[i].env["BUILD_PIP"] = "false"

\* A caller passed BUILD_PIP = true in envs, and both stages ran: stage 1
\* without BUILD_PIP, stage 2 with BUILD_PIP = false.
C10_Witness ==
    /\ b[1].pc = "done" /\ b[1].outcome = "returned"
    /\ b[1].args.envs = <<(<<"BUILD_PIP", "true">>)>>
    /\ Len(S2IEvents(b[1].trace)) = 2
    /\ S2IEvents(b[1].trace)[1].env["BUILD_PIP"] = Unset
    /\ S2IEvents(b[1].trace)[2].env["BUILD_PIP"] = "false"

\* The phase of the pipeline an external operation belongs to: 1 entrypoint
\* preparation, 2 change detection, 3 base-image resolution and provisioning,
\* 4 build-tool discovery and the gate's lookup, 5 stage 1, 6 stage 2,
\* 7 deployment-property synthesis.
Phase(e) ==
    CASE e.op = "prepare" -> 1
      [] e.op \in {"track_hashes", "track_orchestrator"} -> 2
      [] e.op \in {"get_docker_client", "resolve"} \cup {DownloadSteps[i] : i \in DOMAIN DownloadSteps} -> 3
      [] e.op = "images.get" /\ e.src # LayerImage -> 3
      [] e.op = "which" -> 4
      [] e.op = "images.get" /\ e.src = LayerImage -> 4
      [] e.op = "s2i" /\ e.tgt = LayerImage -> 5
      [] e.op = "s2i" /\ e.tgt # LayerImage -> 6
      [] e.op = "properties" -> 7

\* The operations of a build occur in the order of their phases, and each of
\* stage 1, stage 2 and property synthesis at most once.
InPipelineOrder(trace) ==
    /\ \A i \in 1 .. Len(trace) - 1 :
          /\ Phase(trace[i]) <= Phase(trace[i + 1])
          /\ Phase(trace[i]) >= 5 => Phase(trace[i]) < Phase(trace[i + 1])
    /\ Len(trace) >= 1 => Phase(trace[1]) = 1

\* C11 as stated: in every build the operations occur in pipeline order, no
\* build-tool invocation happens before the base image is present locally,
\* and properties are synthesized only after stage 2 has completed.
C11_Original ==
    \A p \in Procs :
        LET st == b[p]
            s == S2IEvents(st.trace)
        IN  /\ InPipelineOrder(st.trace)
            /\ (st.pc \in Stage1Positions \cup Stage2Positions \/ Len(s) >= 1)
               => st.base_image \in images
            /\ Has(st.trace, "properties")
               => (Len(s) >= 1 /\ IsStage2(s[Len(s)]) /\ s[Len(s)].ok)

\* C11, amended: in every build the operations occur in pipeline order; no
\* build-tool invocation happens before change detection has run and the
\* base image is present locally; and in a build with skip_build = false
\* properties are synthesized only after stage 2 has completed (with
\* skip_build = true they follow entrypoint preparation directly).
C11_PipelineOrder ==
    \A p \in Procs :
        LET st == b[p]
            s == S2IEvents(st.trace)
        IN  /\ InPipelineOrder(st.trace)
            /\ (st.pc \in Stage1Positions \cup Stage2Positions \/ Len(s) >= 1)
               => /\ st.base_image \in images
                  /\ Has(st.trace, "track_orchestrator")
                  /\ Has(st.trace, "resolve")
            /\ (Has(st.trace, "properties") /\ ~st.args.skip_build)
               => (Len(s) >= 1 /\ IsStage2(s[Len(s)]) /\ s[Len(s)].ok)
            /\ (Has(st.trace, "properties") /\ st.args.skip_build)
               => Len(st.trace) = 2

\* A build that had to download the base image and ran both stages has
\* synthesized its properties.
C11_Witness ==
    /\ b[1].pc = "done" /\ b[1].outcome = "returned"
    /\ ~b[1].args.download_base
    /\ Has(b[1].trace, "tag")
    /\ Len(S2IEvents(b[1].trace)) = 2
    /\ Has(b[1].trace, "properties")

----------------------------------------------------------------------------
(* Construction of both builder variants by two callers *)

\* What a caller may pass as orchestrator: any member of either enum class,
\* or a plain string.
OrchestratorInputs ==
    Members("Orchestrator") \cup Members("TrainingOrchestrator")
    \cup {Member("str", "AWS_EKS"), Member("str", "SOMETHING_RANDOM")}

ConstructNext ==
    \/ \E p \in Procs, cls \in BuilderClasses, orchestrator \in OrchestratorInputs, requirements \in BOOLEAN, conda_env \in BOOLEAN, artifacts_run \in BOOLEAN :
          Construct(p, cls, orchestrator, requirements, conda_env, artifacts_run)
    \/ \E p \in Procs : TakeResult(p)

SpecConstruct == Init /\ [][ConstructNext]_vars

\* C12: construction succeeds iff the orchestrator belongs to the allowed set
\* of the builder variant; otherwise it fails with a configuration error that
\* names the invalid value and the permitted set, and no builder exists.
C12_OrchestratorValidation ==
    \A p \in Procs :
        LET st == b[p]
        IN  /\ st.builder # NoBuilder
               => /\ st.attempt = NoAttempt /\ st.outcome # "raised"
                  /\ Member(st.builder.orchestrator_enum, st.builder.orchestrator)
                        \in ALLOWED_ORCHESTRATOR(st.builder.cls)
            /\ st.attempt # NoAttempt
               => /\ st.attempt.orchestrator
                        \notin ALLOWED_ORCHESTRATOR(st.attempt.cls)
                  /\ st.pc = "done" /\ st.outcome = "raised"
                  /\ st.builder = NoBuilder
                  /\ st.error = "ValueError"
                  /\ st.message.listed = ALLOWED_ORCHESTRATOR(st.attempt.cls)
                  /\ st.attempt.orchestrator \in st.message.shown

----------------------------------------------------------------------------
(* The base image resolver called on its own by two callers *)

Environments == {"prod", "dev"}

\* A direct call of the static method _get_base_name with the default
\* version; the caller keeps the flags it passed and what came back.
GetBaseName(p, enable_eia, lambda_mode, enable_cuda, cuda_devel, k8s_mode, use_internal) ==
    LET base == _get_base_name(enable_eia, lambda_mode, enable_cuda, cuda_devel,
                               k8s_mode, BaseImageVersion, use_internal)
    IN  /\ b[p].pc \in {"new", "resolved"}
        /\ b' = [b EXCEPT ![p] =
              [InitProc EXCEPT
                  !.pc = "resolved",
                  !.args = [DefaultArgs EXCEPT !.enable_eia = enable_eia,
                                               !.enable_cuda = enable_cuda,
                                               !.cuda_devel = cuda_devel,
                                               !.use_internal = use_internal],
                  !.lambda_mode = lambda_mode,
                  !.k8s_mode = k8s_mode,
                  !.outcome = IF base.error = "" THEN "returned" ELSE "raised",
                  !.error = base.error,
                  !.ret = base.name]]
        /\ UNCHANGED world

InitResolver ==
    \E env \in Environments : InitWorld([f \in TrackedFiles |-> 1], env)

ResolverNext ==
    \E p \in Procs, enable_eia \in BOOLEAN, lambda_mode \in BOOLEAN, enable_cuda \in BOOLEAN, cuda_devel \in BOOLEAN, k8s_mode \in BOOLEAN, use_internal \in BOOLEAN :
        GetBaseName(p, enable_eia, lambda_mode, enable_cuda, cuda_devel, k8s_mode, use_internal)

SpecResolver == InitResolver /\ [][ResolverNext]_vars

Resolved(st) == st.pc = "resolved"

\* The flag tuple of a resolver call.
FlagsOf(st) ==
    [enable_eia |-> st.args.enable_eia, lambda_mode |-> st.lambda_mode,
     enable_cuda |-> st.args.enable_cuda, cuda_devel |-> st.args.cuda_devel,
     k8s_mode |-> st.k8s_mode, use_internal |-> st.args.use_internal]

InvalidCombination(f) ==
    \/ f.enable_eia /\ (f.lambda_mode \/ f.enable_cuda \/ f.k8s_mode)
    \/ f.enable_cuda /\ f.lambda_mode

InvalidCombinationErrors ==
    {"ValueError: Cannot use EIA with other options",
     "ValueError: Cannot use CUDA with Lambda"}

\* C13: resolution is total over the flag tuples: it fails with an
\* invalid-combination error exactly when (enable_eia and (lambda_mode or
\* enable_cuda or k8s_mode)) or (enable_cuda and lambda_mode), and returns an
\* image name for every other tuple.
C13_ResolutionTotal ==
    \A p \in Procs :
        Resolved(b[p]) =>
            IF InvalidCombination(FlagsOf(b[p]))
            THEN /\ b[p].outcome = "raised"
                 /\ b[p].error \in InvalidCombinationErrors
                 /\ b[p].ret = ""
            ELSE /\ b[p].outcome = "returned"
                 /\ b[p].error = ""
                 /\ b[p].ret # ""

C13_Witness ==
    /\ Resolved(b[1]) /\ b[1].outcome = "raised"
    /\ FlagsOf(b[1]).enable_cuda /\ FlagsOf(b[1]).lambda_mode
    /\ ~FlagsOf(b[1]).enable_eia
    /\ Resolved(b[2]) /\ b[2].outcome = "returned"
    /\ FlagsOf(b[2]).enable_eia

\* C14: on every tuple that resolves, the name is superai-model-s2i-python3711,
\* one tier suffix (-gpu-devel if cuda_devel, else -gpu if enable_cuda, else
\* -eia if enable_eia, else -cpu), -internal iff the environment is dev or
\* use_internal is set, -lambda if lambda_mode else -seldon if k8s_mode, and
\* :1; enable_cuda alone outside dev gives superai-model-s2i-python3711-gpu:1.
C14_NameComposition ==
    \A p \in Procs :
        (Resolved(b[p]) /\ b[p].outcome = "returned") =>
            LET f == FlagsOf(b[p])
                tier == CASE f.cuda_devel -> "-gpu-devel"
                          [] ~f.cuda_devel /\ f.enable_cuda -> "-gpu"
                          [] ~f.cuda_devel /\ ~f.enable_cuda /\ f.enable_eia -> "-eia"
                          [] OTHER -> "-cpu"
                internal == IF current_env = "dev" \/ f.use_internal
                            THEN "-internal" ELSE ""
                mode == CASE f.lambda_mode -> "-lambda"
                          [] ~f.lambda_mode /\ f.k8s_mode -> "-seldon"
                          [] OTHER -> ""
            IN  /\ b[p].ret = "superai-model-s2i-python3711" \o tier \o internal
                                 \o mode \o ":1"
                /\ (f = [enable_eia |-> FALSE, lambda_mode |-> FALSE,
                         enable_cuda |-> TRUE, cuda_devel |-> FALSE,
                         k8s_mode |-> FALSE, use_internal |-> FALSE]
                    /\ current_env # "dev")
                   => b[p].ret = "superai-model-s2i-python3711-gpu:1"

C14_Witness ==
    /\ current_env = "prod"
    /\ Resolved(b[1])
    /\ b[1].ret = "superai-model-s2i-python3711-gpu:1"
    /\ Resolved(b[2])
    /\ b[2].ret = "superai-model-s2i-python3711-gpu-devel-internal-seldon:1"
    /\ FlagsOf(b[2]).enable_cuda

\* What of a flag tuple reaches the name: the tier, whether the image is the
\* internal one, and the serving mode.
Contributes(f) ==
    [tier |-> TierSuffix(f.enable_eia, f.enable_cuda, f.cuda_devel),
     internal |-> (current_env = "dev" \/ f.use_internal),
     mode |-> IF f.lambda_mode THEN "-lambda"
              ELSE IF f.k8s_mode THEN "-seldon" ELSE ""]

\* C17 as stated: two successful resolutions in the same environment give
\* equal names if and only if all six flags are equal.
C17_Original ==
    (/\ Resolved(b[1]) /\ b[1].outcome = "returned"
     /\ Resolved(b[2]) /\ b[2].outcome = "returned")
    => (b[1].ret = b[2].ret <=> FlagsOf(b[1]) = FlagsOf(b[2]))

\* C17: two successful resolutions in the same environment with equal flags
\* give equal names, and their names are equal if and only if the tuples
\* agree on the tier, on being internal, and on the serving mode.
C17_NameIdentity ==
    (/\ Resolved(b[1]) /\ b[1].outcome = "returned"
     /\ Resolved(b[2]) /\ b[2].outcome = "returned")
    => /\ FlagsOf(b[1]) = FlagsOf(b[2]) => b[1].ret = b[2].ret
       /\ b[1].ret = b[2].ret <=> Contributes(FlagsOf(b[1])) = Contributes(FlagsOf(b[2]))

C17_Witness ==
    /\ Resolved(b[1]) /\ b[1].outcome = "returned"
    /\ Resolved(b[2]) /\ b[2].outcome = "returned"
    /\ FlagsOf(b[1]) # FlagsOf(b[2])
    /\ b[1].ret = b[2].ret
    /\ FlagsOf(b[1]).cuda_devel /\ FlagsOf(b[1]).enable_cuda
    /\ ~FlagsOf(b[2]).enable_cuda

----------------------------------------------------------------------------
(* Builds with base-image flags, on a plain and on a Lambda orchestrator *)

FlagOrchestrators == {"LOCAL_DOCKER", "AWS_LAMBDA"}

FlagCalls ==
    {[DefaultArgs EXCEPT !.enable_eia = enable_eia, !.use_internal = use_internal] :
        enable_eia \in BOOLEAN, use_internal \in BOOLEAN}

FlagsNext ==
    \/ \E orchestrator \in FlagOrchestrators :
          Construct(1, "AiImageBuilder", Member("Orchestrator", orchestrator),
                    FALSE, FALSE, FALSE)
    \/ \E args \in FlagCalls : build_image(1, args)
    \/ Step(1)

SpecFlags == InitResolver /\ [][FlagsNext]_vars

\* The name _get_base_name gives for a build's flags with use_internal set.
InternalBaseImage(st) ==
    _get_base_name(st.args.enable_eia, st.lambda_mode, st.args.enable_cuda,
                   st.args.cuda_devel, st.k8s_mode, BaseImageVersion, TRUE).name

\* C15: a build invoked with use_internal = true provisions and uses as its
\* stage-1 source the base image with the -internal suffix, also outside dev.
C15_InternalBaseUsed ==
    \A p \in Procs :
        LET st == b[p]
        IN  (st.args.use_internal /\ st.base_image # "")
            => /\ st.base_image = InternalBaseImage(st)
               /\ \A i \in 1 .. Len(st.trace) :
                     (st.trace[i].op = "s2i" /\ st.trace[i].tgt = LayerImage)
                     => st.trace[i].src = InternalBaseImage(st)
               /\ \A i \in 1 .. Len(st.trace) :
                     st.trace[i].op = "tag"
                     => st.trace[i].tgt = InternalBaseImage(st)

\* The operations of a build that read or write outside the process.
IOOperations ==
    {"prepare", "track_hashes", "track_orchestrator", "get_docker_client",
     "images.get", "which", "s2i"}
    \cup {DownloadSteps[i] : i \in DOMAIN DownloadSteps}

\* C16: a build with enable_eia on a Lambda orchestrator fails with the
\* invalid-combination error before any I/O: no entrypoint file written, no
\* cache record created or updated, no registry or Docker access, no
\* build-tool invocation.
C16_FailsBeforeIO ==
    \A p \in Procs :
        LET st == b[p]
        IN  (st.args.enable_eia /\ IsLambdaMode(st.builder.orchestrator)
             /\ st.pc \notin {"ready", "new"})
            => /\ st.pc \in {"s2i_exit", "done"}
                  => (st.raising \in InvalidCombinationErrors
                      \/ st.error \in InvalidCombinationErrors)
               /\ \A i \in 1 .. Len(st.trace) : st.trace[i].op \notin IOOperations
               /\ location_files = [f \in GeneratedFiles |-> AbsentTextFile]
               /\ hash_file = AbsentHashFile
               /\ orchestrator_file = AbsentOrchestratorFile

----------------------------------------------------------------------------
(* Base image provisioning *)

DownloadOps == {DownloadSteps[i] : i \in DOMAIN DownloadSteps}

IsDownload(e) == e.op \in DownloadOps

\* The local lookup of the base image (line 298), not the gate's lookup of
\* the dependency layer.
IsBaseLookup(st, e) == e.op = "images.get" /\ e.src = st.base_image

\* C19: without forced refresh the builder first looks the base image up
\* locally; registry login and pull happen only after that lookup reported
\* "image not found"; when the image is found no login or pull occurs; any
\* other lookup failure aborts the build without the fallback.
C19_FallbackTrigger ==
    \A p \in Procs :
        LET st == b[p]
            tr == st.trace
        IN  (~st.args.download_base /\ st.pc \notin {"new", "ready"}) =>
            /\ \A i \in 1 .. Len(tr) :
                  (tr[i].op = "resolve" /\ tr[i].ok /\ i < Len(tr))
                  => IsBaseLookup(st, tr[i + 1])
            /\ \A j \in 1 .. Len(tr) :
                  IsDownload(tr[j])
                  => \E i \in 1 .. j - 1 :
                        /\ IsBaseLookup(st, tr[i])
                        /\ tr[i].tgt = "ImageNotFound"
                        /\ \A k \in i + 1 .. j : IsDownload(tr[k])
            /\ \A i \in 1 .. Len(tr) :
                  (IsBaseLookup(st, tr[i]) /\ tr[i].tgt = "found")
                  => \A j \in 1 .. Len(tr) : ~IsDownload(tr[j])
            /\ \A i \in 1 .. Len(tr) :
                  (IsBaseLookup(st, tr[i]) /\ tr[i].tgt \notin {"found", "ImageNotFound"})
                  => /\ i = Len(tr)
                     /\ st.pc \in {"s2i_exit", "done"}
                     /\ st.raising = tr[i].tgt
                     /\ \A j \in 1 .. Len(tr) : ~IsDownload(tr[j])

C19_Witness ==
    LET tr == b[1].trace
    IN  /\ ~b[1].args.download_base
        /\ b[1].pc = "done" /\ b[1].outcome = "returned"
        /\ \E i \in 1 .. Len(tr) :
              IsBaseLookup(b[1], tr[i]) /\ tr[i].tgt = "ImageNotFound"
        /\ Has(tr, "ecr_login") /\ Has(tr, "pull") /\ Has(tr, "tag")

\* C20: whenever the download runs, forced or as fallback, its steps occur in
\* the order registry address from account id and region, login to that
\* registry, pull of the registry-qualified image, re-tag to the unqualified
\* base name; after it completes the image is in the local store under the
\* unqualified name, and stage 1 takes the unqualified name as its source.
C20_ProvisioningOrder ==
    \A p \in Procs :
        LET st == b[p]
            tr == st.trace
            d == SelectSeq(tr, IsDownload)
            qualified == AccountId \o ".dkr.ecr." \o Region \o ".amazonaws.com/"
                         \o st.base_image
        IN  /\ Len(d) <= Len(DownloadSteps)
            /\ \A i \in 1 .. Len(d) :
                  /\ d[i].op = DownloadSteps[i]
                  /\ d[i].src = qualified
                  /\ i < Len(d) => d[i].ok
            /\ \A i \in 1 .. Len(d) : d[i].op = "tag" => d[i].tgt = st.base_image
            /\ Has(tr, "tag") => {qualified, st.base_image} \subseteq images
            /\ \A i \in 1 .. Len(tr) :
                  (tr[i].op = "s2i" /\ tr[i].tgt = LayerImage)
                  => /\ tr[i].src = st.base_image
                     /\ tr[i].src # qualified
                     /\ tr[i].src \in images

C20_Witness ==
    LET tr == b[1].trace
    IN  /\ b[1].args.download_base
        /\ Has(tr, "sts") /\ Has(tr, "ecr_login") /\ Has(tr, "pull")
        /\ Has(tr, "docker_pull") /\ Has(tr, "tag")
        /\ \E i \in 1 .. Len(tr) :
              /\ tr[i].op = "s2i" /\ tr[i].tgt = LayerImage /\ tr[i].ok
              /\ tr[i].src = b[1].base_image
        /\ b[1].outcome = "returned"

----------------------------------------------------------------------------
(* Entrypoint preparation on every orchestrator of the prediction builder *)

PrepareCalls ==
    {[DefaultArgs EXCEPT
        !.skip_build = TRUE,
        !.kwargs = [NoKwargs EXCEPT !["lambda_ai_cache"] = lambda_ai_cache,
                                    !["sagemaker_worker_count"] = sagemaker_worker_count]] :
        lambda_ai_cache \in {Unset, "64"}, sagemaker_worker_count \in {Unset, "2"}}

PrepareNext ==
    \/ \E orchestrator \in Orchestrator :
          Construct(1, "AiImageBuilder", Member("Orchestrator", orchestrator),
                    FALSE, FALSE, FALSE)
    \/ \E args \in PrepareCalls : build_image(1, args)
    \/ OpenGenerated(1)
    \/ WriteGenerated(1)
    \/ Properties(1)
    \/ WriteManifest(1)
    \/ TakeResult(1)

SpecPrepare == Init /\ [][PrepareNext]_vars

\* Process p stands in the preparation step of a build.
InPrepare(p) == b[p].pc \in {"prepare", "prepare_write"}

\* The step in which the preparation step of p's build returns or raises.
PrepareEnds(p) == InPrepare(p) /\ b'[p].pc \notin {"prepare", "prepare_write"}

\* The text each generated file is to get from a build of the prediction
\* builder, "" for a file the build is not to write.
ExpectedEntrypoints(orchestrator, kwargs) ==
    LET ai_cache == IF kwargs["lambda_ai_cache"] = Unset THEN "32"
                    ELSE kwargs["lambda_ai_cache"]
        workers == IF kwargs["sagemaker_worker_count"] = Unset THEN "1"
                   ELSE kwargs["sagemaker_worker_count"]
    IN  [f \in GeneratedFiles |->
            IF orchestrator \in {"LOCAL_DOCKER", "AWS_SAGEMAKER", "AWS_SAGEMAKER_ASYNC"}
            THEN (IF f = "handler.py"
                  THEN create_model_handler(EntrypointClass, FALSE, None)
                  ELSE create_model_entrypoint(workers))
            ELSE IF orchestrator \in {"LOCAL_DOCKER_LAMBDA", "AWS_LAMBDA"}
                    /\ f = "handler.py"
            THEN create_model_handler(EntrypointClass, TRUE, ai_cache)
            ELSE ""]

\* What the preparation step of one build of the prediction builder does to
\* the two generated files of the location: no step of it touches a file
\* the orchestrator has no use for, and when it returns the files the
\* orchestrator needs are there, each with its whole text and nothing else.
PreparesByOrchestrator(p) ==
    LET orchestrator == b[p].builder.orchestrator
        expected == ExpectedEntrypoints(orchestrator, b[p].args.kwargs)
    IN  /\ \A f \in GeneratedFiles :
              expected[f] = "" => location_files'[f] = location_files[f]
        /\ PrepareEnds(p)
           => IF orchestrator \in {"LOCAL_DOCKER", "AWS_SAGEMAKER",
                                   "AWS_SAGEMAKER_ASYNC", "LOCAL_DOCKER_LAMBDA",
                                   "AWS_LAMBDA", "AWS_EKS", "LOCAL_DOCKER_K8S"}
              THEN /\ b'[p].trace = <<Ev("prepare", "", "", TRUE, EmptyEnv)>>
                   /\ \A f \in GeneratedFiles :
                         expected[f] # ""
                         => location_files'[f] =
                               [exists |-> TRUE, size |-> Len(expected[f]),
                                content |-> expected[f]]
              ELSE /\ b'[p].trace = <<Ev("prepare", "", "", FALSE, EmptyEnv)>>
                   /\ b'[p].pc = "done" /\ b'[p].outcome = "raised"
                   /\ b'[p].error = "NotImplementedError"
                   /\ UNCHANGED location_files

\* C21: entrypoint preparation writes the handler and the server entrypoint
\* for LOCAL_DOCKER, AWS_SAGEMAKER and AWS_SAGEMAKER_ASYNC, only the handler
\* (lambda mode, with the cache size) for LOCAL_DOCKER_LAMBDA and AWS_LAMBDA,
\* no file for AWS_EKS and LOCAL_DOCKER_K8S, and for any other orchestrator
\* fails with NotImplementedError and writes no file.
C21_EntrypointByOrchestrator ==
    [][\A p \in Procs :
          (InPrepare(p) /\ b[p].builder.cls = "AiImageBuilder")
          => PreparesByOrchestrator(p)]_vars

C21_Witness ==
    /\ b[1].builder.orchestrator = "AWS_LAMBDA"
    /\ b[1].pc = "done" /\ b[1].outcome = "returned"
    /\ location_files["handler.py"].content
       = "handler(MyModel, lambda_mode=True, ai_cache=64)"
    /\ location_files["handler.py"].size = 47
    /\ location_files["dockerd-entrypoint.py"].content = "entrypoint(workers=2)"

----------------------------------------------------------------------------
(* Builds whose declared dependency files come and go *)

MissingNext ==
    \/ \E requirements \in BOOLEAN, conda_env \in BOOLEAN, artifacts_run \in BOOLEAN :
          Construct(1, "AiImageBuilder", Member("Orchestrator", "LOCAL_DOCKER"),
                    requirements, conda_env, artifacts_run)
    \/ \E skip_build \in BOOLEAN :
          build_image(1, [DefaultArgs EXCEPT !.skip_build = skip_build])
    \/ Step(1)
    \/ \E f \in TrackedFiles, content \in 0 .. 1 : EditFile(f, content)

SpecMissing == Init /\ [][MissingNext]_vars

\* The build of st has run, or is past, the hashing loop of _track_changes.
Hashed(st) ==
    \E i \in 1 .. Len(st.trace) : st.trace[i].op = "track_hashes"

\* C22: when a declared tracked file (requirements, conda environment, 'run'
\* artifact) is missing on disk, change detection fails the build with a
\* fatal error: the file is not skipped, and the build has no provisioning
\* and no build-tool invocation.
C22_MissingFileFails ==
    \A p \in Procs :
        LET st == b[p]
            tr == st.trace
        IN  (Hashed(st) /\ \E f \in TrackedBy(st.builder) : disk[f] = 0)
            => /\ st.pc \in {"s2i_exit", "done"}
               /\ st.raising = "FileNotFoundError"
               /\ st.pc = "done"
                  => st.outcome = "raised" /\ st.error = "FileNotFoundError"
               /\ tr[Len(tr)].op = "track_hashes" /\ ~tr[Len(tr)].ok
               /\ \A i \in 1 .. Len(tr) :
                     tr[i].op \in {"prepare", "track_hashes"}
               /\ \A f \in TrackedBy(st.builder) :
                     disk[f] = 0 => hash_file.content[f] # sha256(disk[f])

C22_Witness ==
    /\ b[1].pc = "done" /\ b[1].error = "FileNotFoundError"
    /\ b[1].builder.conda_env /\ b[1].builder.requirements
    /\ disk["environment.yml"] = 0 /\ disk["requirements.txt"] = 1
    /\ hash_file.exists
    /\ hash_file.content["requirements.txt"] = sha256(1)

\* C23: after every change-detection run that returns, changed or not, the
\* persisted hash record maps every tracked file to the hash of its current
\* contents and the persisted orchestrator record is the current
\* orchestrator, so that a run that followed at once would report no change.
C23_RecordsAreCurrent ==
    \A p \in Procs :
        LET st == b[p]
            files == TrackedBy(st.builder)
        IN  (Has(st.trace, "track_orchestrator")
             /\ st.pc \notin {"orch_open", "orch_dump"})
            => /\ hash_file.exists /\ orchestrator_file.exists
               /\ hash_file.size = HashesLen(hash_file.content)
               /\ orchestrator_file.size
                  = OrchestratorLen(orchestrator_file.content)
               /\ \A f \in files : hash_file.content[f] = sha256(disk[f])
               /\ orchestrator_file.content["orchestrator"] = st.builder.orchestrator
               /\ ~HashesChanged(files, LoadHashes(hash_file), disk)
               /\ ~OrchestratorChanged(st.builder.orchestrator,
                                       LoadOrchestrator(orchestrator_file))

\* A run over both files that reported no change has left current records.
C23_Witness ==
    /\ Has(b[1].trace, "track_orchestrator")
    /\ b[1].pc = "resolve"
    /\ ~b[1].changes_in_build
    /\ TrackedBy(b[1].builder) = CacheFiles
    /\ disk["environment.yml"] = 2
    /\ hash_file.content["environment.yml"] = sha256(2)
    /\ orchestrator_file.content["orchestrator"] = b[1].builder.orchestrator

\* C24: when the build tool is not found on the path the build fails with a
\* fatal error, neither stage is invoked, and the lookup is not retried.
C24_BuildToolMissing ==
    \A p \in Procs :
        LET st == b[p]
            tr == st.trace
        IN  (\E i \in 1 .. Len(tr) : tr[i].op = "which" /\ ~tr[i].ok)
            => /\ tr[Len(tr)].op = "which"
               /\ Len(EventsOf(tr, "which")) = 1
               /\ S2IEvents(tr) = <<>>
               /\ st.pc \in {"s2i_exit", "done"}
               /\ st.raising = "ModuleNotFoundError"
               /\ st.pc = "done"
                  => /\ st.outcome = "raised"
                     /\ st.error = "ModuleNotFoundError"
                     /\ st.image_name = ""

C24_Witness ==
    /\ b[1].pc = "done" /\ b[1].outcome = "raised"
    /\ b[1].error = "ModuleNotFoundError"
    /\ Has(b[1].trace, "tag")
    /\ b[1].changes_in_build
    /\ LayerImage \notin images

----------------------------------------------------------------------------
(* Successful builds on a plain, a Lambda and a Kubernetes orchestrator that
   share one environment file *)

EnvironsOrchestrators == {"LOCAL_DOCKER", "AWS_LAMBDA", "AWS_EKS"}

EnvironsNext ==
    \/ \E orchestrator \in EnvironsOrchestrators :
          Construct(1, "AiImageBuilder", Member("Orchestrator", orchestrator),
                    FALSE, FALSE, FALSE)
    \/ \E build_all_layers \in BOOLEAN :
          build_image(1, [DefaultArgs EXCEPT !.build_all_layers = build_all_layers])
    \/ OpenGenerated(1)
    \/ WriteGenerated(1)
    \/ EnterS2I(1)
    \/ CacheFileExists(1)
    \/ CacheFileOpen(1)
    \/ TrackHashes(1)
    \/ DumpHashes(1)
    \/ TrackOrchestrator(1)
    \/ DumpOrchestrator(1)
    \/ Resolve(1, TRUE)
    \/ LookupBase(1, TRUE)
    \/ Download(1, FALSE)
    \/ WhichS2I(1, TRUE)
    \/ Gate(1, TRUE)
    \/ Stage1(1)
    \/ Stage2(1)
    \/ InjectEnviron(1)
    \/ StartS2I(1, TRUE)
    \/ ExitS2ITool(1)
    \/ ExitS2I(1)
    \/ Properties(1)
    \/ WriteManifest(1)
    \/ TakeResult(1)

SpecEnvirons == Init /\ [][EnvironsNext]_vars

K8sFlags ==
    [SERVICE_TYPE |-> "MODEL", PERSISTENCE |-> "0", API_TYPE |-> "REST",
     SELDON_MODE |-> "true"]

LambdaFlagSet(env) == env["LAMBDA_MODE"] = "true"

K8sFlagsSet(env) == \A k \in DOMAIN K8sFlags : env[k] = K8sFlags[k]

\* The step in which process p invokes the build tool, for either stage.
InvocationStep(p) ==
    /\ b[p].pc \in {"stage1_s2i", "stage2_s2i"}
    /\ b'[p].pc \in {"stage1_wait", "stage2_wait"}

\* The environment file the invocation of this step passes with -E.
InvokedWith(p) == b'[p].running.env

\* A step of process p between the start of a stage and its invocation of
\* the build tool.
InjectionStep(p) ==
    /\ b[p].pc \in {"stage1", "stage1_environs", "stage2", "stage2_environs"}
    /\ b'[p] # b[p]

\* C25 as stated: at every build-tool invocation the environment file has
\* the config root set and exactly one of the Lambda flag and the four
\* Kubernetes flags.
C25_Original ==
    [][\A p \in Procs :
          InvocationStep(p)
          => /\ InvokedWith(p)["SUPERAI_CONFIG_ROOT"] = "/tmp/.superai"
             /\ LambdaFlagSet(InvokedWith(p)) # K8sFlagsSet(InvokedWith(p))]_vars

\* C25: every build-tool invocation gets the environment file with the
\* config root set; the invocation has set the Lambda flag on a Lambda
\* orchestrator and left the Kubernetes flags as they were, has set the four
\* Kubernetes flags on a Kubernetes orchestrator and left the Lambda flag as
\* it was, and on any other orchestrator has left all five as they were.
C25_EnvironmentInjection ==
    [][\A p \in Procs :
          /\ InvocationStep(p)
             => /\ InvokedWith(p) = env_file
                /\ env_file["SUPERAI_CONFIG_ROOT"] = "/tmp/.superai"
                /\ IsLambdaMode(b[p].builder.orchestrator)
                   => LambdaFlagSet(env_file)
                /\ IsK8sMode(b[p].builder.orchestrator)
                   => K8sFlagsSet(env_file)
          /\ InjectionStep(p)
             => IF IsLambdaMode(b[p].builder.orchestrator)
                THEN \A k \in DOMAIN K8sFlags : env_file'[k] = env_file[k]
                ELSE IF IsK8sMode(b[p].builder.orchestrator)
                THEN env_file'["LAMBDA_MODE"] = env_file["LAMBDA_MODE"]
                ELSE \A k \in DOMAIN K8sFlags \cup {"LAMBDA_MODE"} :
                        env_file'[k] = env_file[k]]_vars

\* A returned Lambda build whose two invocations got the Lambda flag on top
\* of the Kubernetes flags an earlier builder had left in the file.
C25_Witness ==
    LET s == S2IEvents(b[1].trace)
    IN  /\ b[1].builder.orchestrator = "AWS_LAMBDA"
        /\ b[1].outcome = "returned"
        /\ Len(s) = 2
        /\ \A i \in 1 .. 2 : LambdaFlagSet(s[i].env) /\ K8sFlagsSet(s[i].env)

----------------------------------------------------------------------------
(* Deployment properties of both builder variants on every orchestrator *)

\* The manifest fields a caller overrides here, and the values it gives.
OverrideFields == {"maxReplicas", "cooldownPeriod", "worker_count"}

OverrideValues == {"0", "7"}

\* properties = {"custom": "x"}
CustomProperties == [EmptyProperties EXCEPT !.flat["custom"] = "x"]

\* properties = {"kubernetes_config": {field: value}}
ManifestProperties(field, value) ==
    [EmptyProperties EXCEPT !.has_k8s = TRUE, !.k8s[field] = value]

\* build_image(skip_build=True, ...): no overrides, a custom entry, one field
\* given as keyword argument, or one field given inside
\* properties["kubernetes_config"].
PropertyCalls ==
    LET skip == [DefaultArgs EXCEPT !.skip_build = TRUE]
    IN  {[skip EXCEPT !.enable_cuda = enable_cuda] : enable_cuda \in BOOLEAN}
        \cup {[skip EXCEPT !.properties = CustomProperties]}
        \cup {[skip EXCEPT !.kwargs[field] = value] :
                field \in OverrideFields, value \in OverrideValues}
        \cup {[skip EXCEPT !.properties = ManifestProperties(field, value)] :
                field \in OverrideFields, value \in OverrideValues}

\* builder.get_deployment_properties(properties=..., image_name=...,
\* enable_cuda=..., **kwargs), called by the client itself.
CallGetDeploymentProperties(p, args) ==
    /\ b[p].pc = "ready"
    /\ b' = [b EXCEPT ![p] =
          [@ EXCEPT !.pc = "properties", !.args = args,
                    !.ret = full_image_name(ModelName, ModelVersion)]]
    /\ UNCHANGED world

PropertiesNext ==
    \/ \E cls \in BuilderClasses :
          \E orchestrator \in ALLOWED_ORCHESTRATOR(cls) :
              Construct(1, cls, orchestrator, FALSE, FALSE, FALSE)
    \/ \E args \in PropertyCalls : build_image(1, args)
    \/ OpenGenerated(1)
    \/ WriteGenerated(1)
    \/ OpenManifest(1)
    \/ \E args \in PropertyCalls : CallGetDeploymentProperties(1, args)
    \/ Properties(1)
    \/ WriteManifest(1)
    \/ TakeResult(1)

SpecProperties == Init /\ [][PropertiesNext]_vars

\* The orchestrators the claims call container-serving.
ContainerServing ==
    {"LOCAL_DOCKER", "AWS_SAGEMAKER", "AWS_SAGEMAKER_ASYNC",
     "LOCAL_DOCKER_LAMBDA", "AWS_LAMBDA"}

K8sStyle == {"AWS_EKS", "LOCAL_DOCKER_K8S"}

\* Process p holds the properties a call has returned.
Returned(st) == st.pc = "done" /\ st.outcome = "returned"

\* The step in which get_deployment_properties runs.
PropertiesStep(p) == b[p].pc = "properties" /\ b'[p].pc = "done"

\* C29: for every container-serving orchestrator the returned properties
\* hold the built image name, the Lambda-mode flag (true exactly for Lambda
\* orchestrators) and the CUDA flag, and no true k8s-mode flag.
C29_FlatProperties ==
    \A p \in Procs :
        LET st == b[p]
            flat == st.properties.flat
        IN  (Returned(st) /\ st.builder.orchestrator \in ContainerServing)
            => /\ flat["image_name"] = st.ret
               /\ flat["lambda_mode"] = PyBool(IsLambdaMode(st.builder.orchestrator))
               /\ flat["enable_cuda"] = PyBool(st.args.enable_cuda)
               /\ flat["k8s_mode"] # True

\* C30: for an orchestrator that is neither Kubernetes-style nor
\* container-serving, get_deployment_properties returns the caller's
\* properties as they are and writes no manifest file.
C30_OtherOrchestratorsUnchanged ==
    [][\A p \in Procs :
          (PropertiesStep(p)
           /\ b[p].builder.orchestrator \notin K8sStyle \cup ContainerServing)
          => /\ b'[p].outcome = "returned"
             /\ b'[p].properties = b[p].args.properties
             /\ UNCHANGED <<config_json, location_files>>]_vars

C30_Witness ==
    /\ b[1].builder.orchestrator = "MINIKUBE"
    /\ Returned(b[1])
    /\ b[1].args.properties = CustomProperties
    /\ b[1].properties = CustomProperties
    /\ config_json.exists

\* The value the caller supplied for a manifest field, under the name the
\* code reads it by: inside properties["kubernetes_config"] or as keyword
\* argument; Unset when the caller gave none.
Supplied(args, field) ==
    IF args.properties.has_k8s /\ args.properties.k8s[field] # Unset
    THEN args.properties.k8s[field]
    ELSE args.kwargs[field]

\* C26: in the manifest of a Kubernetes-style orchestrator every field holds
\* the value the caller supplied for it, zero and other falsy values
\* included, and the default only where the caller supplied nothing.
C26_CallerValuesWin ==
    \A p \in Procs :
        LET st == b[p]
        IN  (Returned(st) /\ st.builder.orchestrator \in K8sStyle)
            => \A out \in K8sOutKeys :
                  LET field == K8sSourceOf(out)
                  IN  st.properties.k8s[out] =
                          IF Supplied(st.args, field) # Unset
                          THEN Supplied(st.args, field)
                          ELSE K8sParamDefault(field)

\* The caller gave no manifest value, neither way.
NoOverrides(args) ==
    /\ args.kwargs = NoKwargs
    /\ ~args.properties.has_k8s

\* C27: a build for AWS_EKS or LOCAL_DOCKER_K8S without caller overrides
\* returns under kubernetes_config a manifest with minReplicaCount 0,
\* maxReplicaCount 5, cooldownPeriod 1800, targetAverageUtilization 0.5,
\* gpuTargetAverageUtilization 60, memory 512Mi to 4Gi, the volume efs-vpc
\* mounted at /shared, and one thread.
C27_DefaultManifest ==
    \A p \in Procs :
        LET st == b[p]
            k8s == st.properties.k8s
        IN  (/\ Returned(st)
             /\ st.builder.orchestrator \in K8sStyle
             /\ NoOverrides(st.args))
            => /\ st.properties.has_k8s
               /\ k8s["minReplicaCount"] = "0"
               /\ k8s["maxReplicaCount"] = "5"
               /\ k8s["cooldownPeriod"] = "1800"
               /\ k8s["targetAverageUtilization"] = "0.5"
               /\ k8s["gpuTargetAverageUtilization"] = "60"
               /\ k8s["targetMemoryRequirement"] = "512Mi"
               /\ k8s["targetMemoryLimit"] = "4Gi"
               /\ k8s["volumeMountName"] = "efs-vpc"
               /\ k8s["mountPath"] = "/shared"
               /\ k8s["numThreads"] = "1"

C27_Witness ==
    /\ Returned(b[1])
    /\ b[1].builder.orchestrator = "AWS_EKS"
    /\ Has(b[1].trace, "prepare")
    /\ NoOverrides(b[1].args)
    /\ b[1].properties.has_k8s
    /\ b[1].properties.k8s["cooldownPeriod"] = "1800"

\* C28: after a build for a Kubernetes-style orchestrator has returned,
\* <name>_config.json holds the manifest returned under kubernetes_config,
\* for the training builder too, whose preparation has written the file
\* once before.
C28_PersistedIsReturned ==
    \A p \in Procs :
        LET st == b[p]
        IN  (Returned(st) /\ st.builder.orchestrator \in K8sStyle)
            => /\ st.properties.has_k8s
               /\ config_json.exists
               /\ config_json.content = st.properties.k8s
               /\ config_json.size = ManifestLen(st.properties.k8s)

C28_Witness ==
    /\ Returned(b[1])
    /\ b[1].builder.cls = "AiTrainerImageBuilder"
    /\ Has(b[1].trace, "prepare")
    /\ b[1].args.enable_cuda
    /\ config_json.content = b[1].properties.k8s
    /\ config_json.content["enableCuda"] = True

----------------------------------------------------------------------------
(* No retries *)

\* C31: within one build every external operation is attempted at most
\* once (one registry login and one provisioning at most, one stage-1 and
\* one stage-2 invocation at most), and an operation that failed is the
\* build's last: the build ends with its error.  A lookup that reports an
\* absent image has not failed, it selects the branch.
C31_NoRetries ==
    \A p \in Procs :
        LET st == b[p]
            tr == st.trace
        IN  /\ \A i, j \in 1 .. Len(tr) :
                  (i < j) => ~(tr[i].op = tr[j].op /\ tr[i].src = tr[j].src)
            /\ Len(EventsOf(tr, "ecr_login")) <= 1
            /\ Len(EventsOf(tr, "pull")) <= 1
            /\ Len(SelectSeq(tr, LAMBDA e : IsStage1(st, e))) <= 1
            /\ Len(SelectSeq(tr, LAMBDA e : IsStage2(e))) <= 1
            /\ Len(S2IEvents(tr)) <= 2
            /\ \A i \in 1 .. Len(tr) :
                  (~tr[i].ok /\ tr[i].tgt # "ImageNotFound")
                  => /\ i = Len(tr)
                     /\ st.raising # "" \/ st.outcome = "raised"

C31_Witness ==
    LET st == b[1]
        tr == st.trace
    IN  /\ st.pc = "done"
        /\ st.outcome = "raised"
        /\ st.args.download_base
        /\ Has(tr, "ecr_login")
        /\ Has(tr, "tag")
        /\ Len(S2IEvents(tr)) = 1
        /\ ~tr[Len(tr)].ok
        /\ tr[Len(tr)].op = "s2i"

----------------------------------------------------------------------------
(* Two processes that build the same name and version *)

\* Two clients with a builder each for the same model, location and cache,
\* whose builds interleave at every access to the generated files, the
\* cache files, the environment file and the image store; the registry, the Docker daemon and
\* the build tool do not fail; the requirements file is rewritten only while
\* no build runs.
ConcurrentNext ==
    \/ \E p \in Procs, orchestrator \in MainOrchestrators :
          Construct(p, "AiImageBuilder", Member("Orchestrator", orchestrator),
                    TRUE, FALSE, FALSE)
    \/ \E p \in Procs : build_image(p, DefaultArgs)
    \/ \E p \in Procs : OpenGenerated(p)
    \/ \E p \in Procs : WriteGenerated(p)
    \/ \E p \in Procs : EnterS2I(p)
    \/ \E p \in Procs : CacheFileExists(p)
    \/ \E p \in Procs : CacheFileOpen(p)
    \/ \E p \in Procs : TrackHashes(p)
    \/ \E p \in Procs : DumpHashes(p)
    \/ \E p \in Procs : TrackOrchestrator(p)
    \/ \E p \in Procs : DumpOrchestrator(p)
    \/ \E p \in Procs : Resolve(p, TRUE)
    \/ \E p \in Procs : LookupBase(p, TRUE)
    \/ \E p \in Procs : Download(p, FALSE)
    \/ \E p \in Procs : WhichS2I(p, TRUE)
    \/ \E p \in Procs : Gate(p, TRUE)
    \/ \E p \in Procs : Stage1(p)
    \/ \E p \in Procs : Stage2(p)
    \/ \E p \in Procs : InjectEnviron(p)
    \/ \E p \in Procs : StartS2I(p, TRUE)
    \/ \E p \in Procs : ExitS2ITool(p)
    \/ \E p \in Procs : ExitS2I(p)
    \/ \E p \in Procs : Properties(p)
    \/ \E p \in Procs : TakeResult(p)
    \/ \E content \in 1 .. 2 : EditFile("requirements.txt", content)

SpecConcurrent == Init /\ [][ConcurrentNext]_vars

\* The dependency-layer image was built from other contents of p's tracked
\* files than the location holds now.
LayerPredates(p) ==
    \E f \in TrackedBy(b[p].builder) : pip_layer_src.disk[f] # disk[f]

\* The step in which p starts the build tool on the dependency layer the
\* store holds, without having run stage 1.
ReuseStep(p) ==
    /\ b[p].pc = "stage2_s2i"
    /\ b'[p].pc = "stage2_wait"
    /\ Len(S2IEvents(b[p].trace)) = 0

\* q has seen the change and persisted the updated cache record, and its
\* stage 1 is not over.
InRaceWindow(q) ==
    /\ b[q].changes_in_build
    /\ b[q].pc \in {"track_orchestrator", "orch_load", "orch_open", "orch_dump",
                    "resolve", "lookup_base", "fallback_download",
                    "which_s2i", "gate"} \cup Stage1Positions
    /\ hash_file.size = HashesLen(hash_file.content)
    /\ \A f \in TrackedBy(b[q].builder) : hash_file.content[f] = sha256(disk[f])

\* C32: concurrent builds of one name and version are not coordinated.  A
\* process builds its application layer on a dependency layer that predates
\* the changed inputs only when it has observed changed = false and found
\* the old layer, and it observes changed = false exactly when the record it
\* reads is the updated one, whoever persisted it and however far that
\* process has come since.
C32_UncoordinatedBuilds ==
    [][\A p \in Procs :
          /\ (ReuseStep(p) /\ LayerPredates(p))
             => /\ ~b[p].changes_in_build
                /\ LayerFound(b[p].trace)
          /\ (b[p].pc = "hash_load" /\ b'[p].pc = "hash_open")
             => (~b'[p].changes_in_build
                 <=> \A f \in TrackedBy(b[p].builder) :
                        hash_file.content[f] = sha256(disk[f]))]_vars

\* The interleaving of the claim: process 1 has seen the change and persisted
\* the updated record and its stage 1 is running, process 2 has read that
\* record, found the old layer and built the application layer on it.
C32_Witness ==
    /\ InRaceWindow(1)
    /\ b[1].pc = "stage1_wait"
    /\ b[2].pc = "s2i_exit"
    /\ b[2].raising = ""
    /\ ~b[2].changes_in_build
    /\ LayerFound(b[2].trace)
    /\ Len(S2IEvents(b[2].trace)) = 1
    /\ LayerPredates(2)
    /\ FullImage \in images

----------------------------------------------------------------------------
(* The first build *)

\* Change detection of the build found no recorded orchestrator: there was
\* no .orchestrator.txt, or an empty one.
FirstBuild(st) ==
    \E i \in 1 .. Len(st.trace) :
        st.trace[i].op = "track_orchestrator" /\ st.trace[i].src = None

\* C33: the first build for a name and version, with no cache record,
\* reports changed = true and runs stage 1 once it is past the gate, also
\* when it tracks no file: the absent orchestrator record differs from the
\* builder's orchestrator.
C33_FirstBuildChanged ==
    \A p \in Procs :
        LET st == b[p]
        IN  FirstBuild(st)
            => /\ st.changes_in_build
               /\ (GateReached(st) /\ st.pc # "gate")
                  => \/ st.pc \in Stage1Positions
                     \/ \E i \in 1 .. Len(st.trace) :
                           IsStage1(st, st.trace[i])

C33_Witness ==
    /\ FirstBuild(b[1])
    /\ TrackedBy(b[1].builder) = {}
    /\ ~b[1].args.build_all_layers
    /\ ~b[1].args.download_base
    /\ b[1].pc = "stage2"
    /\ \E i \in 1 .. Len(b[1].trace) :
          IsStage1(b[1], b[1].trace[i]) /\ b[1].trace[i].ok

----------------------------------------------------------------------------
(* The stage gate *)

\* The gate's lookup reported the dependency-layer image absent.
LayerAbsent(trace) ==
    \E i \in 1 .. Len(trace) :
        trace[i].op = "images.get" /\ trace[i].src = LayerImage
        /\ trace[i].tgt = "ImageNotFound"

\* The build came to the gate and the gate has decided: it did not end
\* there on a lookup that failed with another error than image-not-found.
GateDecided(st) ==
    /\ GateReached(st)
    /\ st.pc \in Stage1Positions \cup Stage2Positions
                \cup {"s2i_exit", "properties", "done"}
    /\ ~(LET e == st.trace[Len(st.trace)]
         IN  e.op = "images.get" /\ e.src = LayerImage /\ e.tgt = "APIError")

RanStage1(st) == \E i \in 1 .. Len(st.trace) : IsStage1(st, st.trace[i])

\* C34: in every build in which the gate decides, stage 1 is run if and
\* only if change detection reported changed = true, or the
\* <name>-pip-layer:<version> image is absent, or the caller passed
\* build_all_layers = true or download_base = true; build_all_layers
\* rebuilds the dependency layer also when nothing changed and the layer
\* image is there.
C34_ExactGate ==
    \A p \in Procs :
        LET st == b[p]
        IN  GateDecided(st)
            => /\ (st.pc \in Stage1Positions \/ RanStage1(st))
                  <=> \/ st.changes_in_build
                      \/ LayerAbsent(st.trace)
                      \/ st.args.build_all_layers
                      \/ st.args.download_base
               /\ ~st.changes_in_build
                  => (LayerAbsent(st.trace) <=> ~LayerFound(st.trace))

C34_Witness ==
    /\ GateDecided(b[1])
    /\ b[1].pc = "stage2"
    /\ b[1].args.build_all_layers
    /\ ~b[1].args.download_base
    /\ ~b[1].changes_in_build
    /\ LayerFound(b[1].trace)
    /\ RanStage1(b[1])

----------------------------------------------------------------------------
(* A tracked set that shrinks and grows again *)

\* The step in which p's change detection loads .hash.json and goes over
\* the tracked files.
HashingStep(p) == b[p].pc = "hash_load" /\ b'[p].pc # "hash_load"

\* C35: change detection compares the files tracked in this build only.
\* The hash-record entries of the other files stay as they are, and the
\* hashing reports a change exactly when a tracked file differs from its
\* entry: a build that no longer declares a file is not changed by that, and
\* a later build that declares it again with the old contents is not either.
C35_OnlyTrackedCompared ==
    [][\A p \in Procs :
          /\ HashingStep(p)
             => /\ \A f \in TrackedFiles \ TrackedBy(b[p].builder) :
                       /\ hash_file'.content[f] = LoadHashes(hash_file)[f]
                       /\ b'[p].pc = "hash_open"
                          => b'[p].new_hash[f] = LoadHashes(hash_file)[f]
                /\ b'[p].pc = "hash_open"
                   => (b'[p].changes_in_build
                       <=> \E f \in TrackedBy(b[p].builder) :
                              sha256(disk[f])
                              # DictGet(LoadHashes(hash_file), f))
          /\ (b[p].pc = "hash_dump" /\ b'[p].pc # "hash_dump")
             => /\ hash_file'.content = b[p].new_hash
                /\ hash_file'.size = HashesLen(b[p].new_hash)]_vars

\* A build that no longer declares requirements.txt, after one that did:
\* the entry is still in the record, nothing is reported changed, and the
\* application layer is built on the dependency layer of the earlier build.
C35_Witness ==
    /\ TrackedBy(b[1].builder) = {}
    /\ hash_file.content["requirements.txt"] = sha256(disk["requirements.txt"])
    /\ pip_layer_src.disk["requirements.txt"] = disk["requirements.txt"]
    /\ ~b[1].changes_in_build
    /\ ~Forced(b[1])
    /\ LayerFound(b[1].trace)
    /\ b[1].pc = "s2i_exit"
    /\ Len(S2IEvents(b[1].trace)) = 1
    /\ S2IEvents(b[1].trace)[1].ok

----------------------------------------------------------------------------
(* Exclusive tiers *)

\* The name a successful resolution of the flags f gives when its tier
\* suffix is `tier`.
NameOfTier(f, tier) ==
    "superai-model-s2i-python3711" \o tier
    \o Flag(current_env = "dev" \/ f.use_internal, "-internal")
    \o (IF f.lambda_mode THEN "-lambda" ELSE IF f.k8s_mode THEN "-seldon" ELSE "")
    \o ":" \o ToString(BaseImageVersion)

\* C36: EIA is exclusive: every successful resolution with enable_eia = true
\* gives a name with the -eia tier suffix, also when cuda_devel is set
\* without enable_cuda; and no successful resolution in lambda mode gives a
\* name with a GPU tier suffix.
C36_ExclusiveTiers ==
    \A p \in Procs :
        LET st == b[p]
            f == FlagsOf(st)
        IN  (Resolved(st) /\ st.outcome = "returned")
            => /\ f.enable_eia => st.ret = NameOfTier(f, "-eia")
               /\ f.lambda_mode
                  => st.ret \notin {NameOfTier(f, "-gpu"), NameOfTier(f, "-gpu-devel")}

----------------------------------------------------------------------------
(* Builds on MINIKUBE next to builds on LOCAL_DOCKER *)

MinikubeNext ==
    \/ \E orchestrator \in {"MINIKUBE", "LOCAL_DOCKER"}, requirements \in BOOLEAN :
          Construct(1, "AiImageBuilder", Member("Orchestrator", orchestrator),
                    requirements, FALSE, FALSE)
    \/ \E skip_build \in BOOLEAN, envs \in MainEnvs :
          build_image(1, [DefaultArgs EXCEPT !.skip_build = skip_build,
                                             !.envs = envs])
    \/ UpdateEnviron(1)
    \/ Step(1)

SpecMinikube == Init /\ [][MinikubeNext]_vars

\* C37: the prediction builder is constructed with MINIKUBE, and every build
\* with it, with or without skip_build, ends in entrypoint preparation with
\* NotImplementedError: preparation is its only operation, no cache record
\* is read or written, no image looked up, pulled or built, and nothing is
\* written into the location.
C37_MinikubeUnimplemented ==
    [][\A p \in Procs :
          /\ (b[p].builder.orchestrator = "MINIKUBE" /\ b'[p] # b[p])
             => UNCHANGED <<cache, images, generated, pip_layer_src, last_track>>
          /\ b'[p].builder.orchestrator = "MINIKUBE"
             => /\ b'[p].builder.cls = "AiImageBuilder"
                /\ b'[p].pc \in {"ready", "environs", "prepare", "done"}
                /\ b'[p].pc = "done"
                   => /\ b'[p].outcome = "raised"
                      /\ b'[p].error = "NotImplementedError"
                      /\ b'[p].trace = <<Ev("prepare", "", "", FALSE, EmptyEnv)>>
                      /\ b'[p].image_name = ""]_vars

\* A MINIKUBE build without skip_build has failed in a location whose cache
\* and image store earlier builds have filled.
C37_Witness ==
    /\ b[1].builder.orchestrator = "MINIKUBE"
    /\ b[1].pc = "done"
    /\ b[1].error = "NotImplementedError"
    /\ ~b[1].args.skip_build
    /\ hash_file.exists /\ orchestrator_file.exists
    /\ orchestrator_file.content.orchestrator = "LOCAL_DOCKER"
    /\ FullImage \in images

----------------------------------------------------------------------------
(* skip_build *)

\* C38: with skip_build = true, build_image applies the caller's envs to the
\* environment file and changes nothing else in it (BUILD_PIP stays unless
\* the caller names it), runs the preparation step, and returns
\* <name>:<version> with the synthesized properties, whether or not such an
\* image exists; the cache records and the image store stay as they are and
\* there is no registry access and no build-tool invocation.
C38_SkipBuild ==
    [][\A p \in Procs :
          LET items == b[p].args.envs
          IN  (b[p].args.skip_build /\ b[p].pc \notin {"new", "ready"}
               /\ b'[p] # b[p])
              => /\ UNCHANGED <<cache, images>>
                 /\ \A i \in 1 .. Len(b[p].trace) :
                       b[p].trace[i].op \in {"prepare", "properties"}
                 /\ \A k \in EnvKeys :
                       env_file'[k] =
                          IF b[p].pc = "environs" /\ k = items[b[p].step][1]
                          THEN items[b[p].step][2] ELSE env_file[k]
                 /\ InPrepare(p)
                    => \A i \in 1 .. Len(items) : env_file[items[i][1]] = items[i][2]
                 /\ (PrepareEnds(p) /\ b'[p].outcome # "raised")
                    => /\ b'[p].pc = "properties"
                       /\ b'[p].ret = FullImage
                       /\ b[p].builder.orchestrator \in MainOrchestrators
                          => \A f \in GeneratedFiles :
                                /\ location_files'[f].exists
                                /\ location_files'[f].size
                                   = Len(location_files'[f].content)
                                /\ location_files'[f].size > 0
                 /\ PropertiesStep(p)
                    => /\ b'[p].outcome = "returned"
                       /\ b'[p].image_name = FullImage
                       /\ b'[p].properties =
                             get_deployment_properties(
                                 b[p].builder.orchestrator, b[p].args.properties,
                                 FullImage, b[p].args.enable_cuda, b[p].args.kwargs)
                       /\ b'[p].trace = <<Ev("prepare", "", "", TRUE, EmptyEnv),
                                          Ev("properties", "", "", TRUE, EmptyEnv)>>]_vars

\* A skipped build has returned the name of an image that is not in the
\* store, after an earlier build had left cache records.
C38_Witness ==
    /\ b[1].pc = "done" /\ b[1].outcome = "returned"
    /\ b[1].args.skip_build
    /\ b[1].args.envs # <<>>
    /\ env_file["BUILD_PIP"] = "true"
    /\ b[1].image_name = FullImage
    /\ FullImage \notin images
    /\ hash_file.exists
    /\ b[1].properties.flat["image_name"] = FullImage
    /\ location_files["handler.py"].exists

----------------------------------------------------------------------------
(* The cache after a failed change detection *)

\* C39: when change detection fails on a missing tracked file the cache is
\* not partially updated: .hash.json holds what it held before (the empty
\* mapping when it did not exist), without the hashes of the files hashed
\* earlier in the run, and .orchestrator.txt is neither created nor changed;
\* the next build compares against the baseline from before the failure.
C39_NoPartialUpdate ==
    [][\A p \in Procs :
          (HashingStep(p)
           /\ \E f \in TrackedBy(b[p].builder) : disk[f] = 0)
          => /\ b'[p].raising = "FileNotFoundError"
             /\ hash_file'.exists
             /\ hash_file'.content = LoadHashes(hash_file)
             /\ LoadHashes(hash_file') = LoadHashes(hash_file)
             /\ UNCHANGED orchestrator_file]_vars

\* The first build of a location failed on a missing environment.yml after
\* having hashed requirements.txt: the record is the empty mapping and there
\* is no orchestrator record.
C39_Witness ==
    /\ b[1].pc = "done" /\ b[1].error = "FileNotFoundError"
    /\ {"requirements.txt", "environment.yml"} \subseteq TrackedBy(b[1].builder)
    /\ disk["requirements.txt"] # 0
    /\ disk["environment.yml"] = 0
    /\ hash_file.exists
    /\ hash_file.content = EmptyHashes
    /\ ~orchestrator_file.exists

----------------------------------------------------------------------------
(* The training builder's preparation *)

\* The training builder has run its preparation step and nothing after it.
TrainerPrepared(st) ==
    /\ st.builder.cls = "AiTrainerImageBuilder"
    /\ st.pc = "properties"
    /\ st.trace = <<Ev("prepare", "", "", TRUE, EmptyEnv)>>

\* C40: the manifest the training builder's preparation step persists
\* carries the build call's enable_cuda flag and the caller's overrides from
\* properties, so that <name>_config.json has them also when the build ends
\* after preparation.
C40_TrainerManifest ==
    \A p \in Procs :
        LET st == b[p]
        IN  TrainerPrepared(st)
            => /\ config_json.content["enableCuda"] = PyBool(st.args.enable_cuda)
               /\ \A out \in K8sOutKeys :
                     (Supplied(st.args, K8sSourceOf(out)) # Unset
                      /\ ~Falsy(Supplied(st.args, K8sSourceOf(out))))
                     => config_json.content[out]
                        = Supplied(st.args, K8sSourceOf(out))

====
